---- MODULE Spec2Model ----
(***************************************************************************)
(* A model of otun-node-agent: the sing-box process supervisor             *)
(* (internal/singbox/process.go), the quota monitor                        *)
(* (internal/quota/monitor.go), the configuration generators               *)
(* (internal/config) and the agent's reconciler (cmd/agent/main.go).       *)
(*                                                                         *)
(* Time is counted in whole seconds.  Every timer of the code is kept as   *)
(* the number of seconds elapsed (or left), saturating where the code no   *)
(* longer distinguishes larger values.                                     *)
(***************************************************************************)
EXTENDS Integers, Sequences, FiniteSets, TLC

(***************************************************************************)
(* Bounds of the model                                                     *)
(***************************************************************************)
\* exec.Cmd objects the supervisor may create in one behaviour of Spec
MaxInst == 3
\* exec.Cmd objects the supervisor may create in one behaviour of SpecCrash
MaxCrashInst == 9
\* bits of the signed integers that stand for the code's int64
IntBits == 4
\* the largest byte count passed to one CheckUser call
MaxBytes == 2
\* the last second of the clock
MaxNow == 2
\* the longest user list handed to a generator in SpecGen
MaxGenUsers == 2
\* UpdateUsers calls in one behaviour of SpecMonitor and SpecLoop
MaxUpd == 2
\* bytes passed to CheckUser for one user in one behaviour of SpecMonitor
MaxChecked == 2
\* Local Store mutations in one behaviour of SpecAgent
MaxMut == 2
\* sync ticks and forced syncs in one behaviour of SpecAgent
MaxTicks == 2
\* regeneration callbacks that may run at the same time
MaxCb == 1
\* regeneration callbacks that may run at the same time in SpecLocal
MaxLocalCb == 2
\* sessions in one answer of the sing-box connections API
MaxConns == 3
\* batches spooled in one behaviour of SpecSpool
MaxSpool == 4
\* Report calls in one behaviour of SpecReport
MaxReports == 3
\* ticks of the timers of the main loop that wait to be taken at once
MaxDue == 2
\* the clock reading that names the first spool file; the names of one
\* behaviour have the same number of digits, as UnixNano has from 2001
\* to 2262
FirstStamp == 10

(***************************************************************************)
(* Program constants                                                       *)
(***************************************************************************)
maxRestartAttempts == 5
maxPortWaitTime == 30
\* the "frequent restart" window of monitor(): 10 seconds
RestartWindow == 10
\* the cap of the exponential backoff: 32 seconds
MaxBackoff == 32
\* stopLocked: seconds granted to SIGTERM, then to SIGKILL
TermWait == 5
KillWait == 2

VARIABLES
    \* ---- singbox.Manager (process.go:24-33)
    running,        \* m.running
    cmd,            \* m.cmd: NoCmd (nil) or the id of an exec.Cmd
    restartCount,   \* m.restartCount
    sinceRestart,   \* seconds since m.lastRestartAt, saturating at RestartWindow
    stopRequested,  \* m.stopRequested
    mu,             \* m.mu: Free, Api (a caller of Start/Stop/Reload) or a watcher id
    lop,            \* the operation the lock holder is executing
    lpc,            \* where the lock holder is blocked
    ltimer,         \* seconds the lock holder has been blocked there
    \* ---- the operating system
    instLimit,      \* how many exec.Cmd objects this behaviour may create
    ncmd,           \* exec.Cmd objects created so far
    proc,           \* id -> state of the process behind that exec.Cmd
    signalled,      \* ids that were sent SIGTERM or SIGKILL by stopLocked
    \* ---- the monitor goroutines, one per successful start
    wpc,            \* watcher id -> position in monitor()
    wcmd,           \* watcher id -> the cmd it read at process.go:208
    wsleep,         \* watcher id -> seconds left of its backoff sleep
    \* ---- observations
    ret,            \* what the step just taken returned to its caller, if it returned
    waits,          \* the backoff waits chosen so far, in order
    handled,        \* unexpected exits handled as a crash so far
    attempts,       \* startLocked calls made by watchers so far
    gaveUp,         \* the watcher logged "giving up auto-restart"
    \* ---- quota.Monitor (monitor.go:22-26) and the clock
    users,          \* m.users: uuid -> UserQuota
    now,            \* time.Now(), in seconds
    removed,        \* uuid -> the reasons onRemove was started with, in order
    acc,            \* uuid -> bytes passed to CheckUser so far, not wrapped
    swept,          \* uuids that were checked while present and expired
    qret,           \* what the CheckUser call just made saw and returned
    qmu,            \* m.mu of the monitor: held by an UpdateUsers call, or not
    newUsers,       \* newUsers of the UpdateUsers call in progress
    ulist,          \* its argument
    upos,           \* the entries of the argument it has visited
    nupd,           \* UpdateUsers calls begun so far
    \* ---- a generator call (SpecGen)
    gin,            \* the arguments of the call
    gout,           \* the configuration it returned
    \* ---- singbox.ConnectionManager (part_004) and stats.Reporter
    kick,           \* the KickUser call: its position, locals and result
    spool,          \* the files stats_*.json of the cache directory
    sclock,         \* time.Now().UnixNano(), as far as file names tell
    flush,          \* the FlushCache call: its position, locals and result
    report,         \* the Report calls so far and what the last one did
    \* ---- runMainLoop (main.go:311-375)
    main,           \* its position, the handler it is in, what it did at the end
    due,            \* the tickers whose channel holds a tick
    ctxDone,        \* ctx.Done() is closed: the shutdown signal was received
    \* ---- the agent (main.go:24-46) and its files
    mode,           \* a.cfg.ManagementMode
    multiProto,     \* a.multiProto: the multi-protocol context, if any
    currentVersion, \* a.currentVersion
    cache,          \* the cache file users.json
    configFile,     \* the sing-box configuration file
    apc,            \* position of the main goroutine
    aloc,           \* its local variables
    rpc,            \* goroutine -> position in regenerateConfig
    rloc,           \* goroutine -> the local variables of regenerateConfig
    \* ---- local.Store (part_003:46-52)
    storeUsers,     \* s.users: uuid -> LocalUser
    circuitBreaker, \* s.circuitBreaker != nil && s.circuitBreaker.Enabled
    storeFile,      \* local_users.json: the users and the breaker last saved
    mret,           \* what the last mutation of the store returned
    \* ---- observations
    lastRemote,     \* the remote list last handed to the quota monitor
    bootFailed,     \* the fetch of the initial sync failed
    brkBefore,      \* the lists and the store the first activation of the breaker found
    nmut,           \* Local Store mutations so far
    nticks          \* syncs started by the main loop so far

supVars == <<running, cmd, restartCount, sinceRestart, stopRequested, mu, lop,
             lpc, ltimer, instLimit, ncmd, proc, signalled, wpc, wcmd,
             wsleep, ret, waits, handled, attempts, gaveUp>>

\* an UpdateUsers call in progress as its own goroutine
updVars == <<qmu, newUsers, ulist, upos, nupd>>

quotaVars == <<users, now, removed, acc, swept, qret, updVars>>

genVars == <<gin, gout>>

\* the connection manager and the stats reporter
ioVars == <<kick, spool, sclock, flush, report>>

\* the main loop and its channels
mainVars == <<main, due, ctxDone>>

agentVars == <<mode, multiProto, currentVersion, cache, configFile, apc, aloc,
               rpc, rloc, storeUsers, circuitBreaker, lastRemote,
               bootFailed, brkBefore, nmut, nticks,
              storeFile, mret>>

\* everything that is not the supervisor's
nonSup == <<quotaVars, genVars, agentVars, ioVars, mainVars>>

\* what the agent's steps leave alone: the supervisor but for m.running,
\* the quota monitor but for m.users, and the generator call
outside == <<cmd, restartCount, sinceRestart, stopRequested, mu, lop, lpc,
             ltimer, instLimit, ncmd, proc, signalled, wpc, wcmd, wsleep,
             ret, waits, handled, attempts, gaveUp,
             now, removed, acc, swept, qret, updVars, genVars, ioVars,
             mainVars>>

\* what an action of the agent other than a mutation of the store leaves
\* alone
beyond == <<outside, storeFile, mret>>

vars == <<supVars, quotaVars, genVars, agentVars, ioVars, mainVars>>

\* ------------------------------------------------------------------
\* singbox.ConnectionManager.KickUser (part_004): list the sessions over
\* the sing-box API, then terminate the ones of one user, one DELETE per
\* session.

\* the users sessions are tagged with
KickUsers == {"A", "B"}

\* no call of KickUser made yet
NoKick ==
    [pc |-> "idle", uuid |-> "A", listed |-> FALSE, conns |-> <<>>,
     idx |-> 0, kicked |-> 0, tried |-> <<>>,
     ret |-> [n |-> 0, err |-> FALSE]]

\* what GetActiveConnections can answer: up to MaxConns sessions, their
\* ids distinct, each tagged with a user
ConnLists ==
    UNION {{[k \in 1..n |-> [id |-> k, user |-> u[k]]] :
              u \in [1..n -> KickUsers]} : n \in 0..MaxConns}

\* KickUser up to the listing: a failed listing returns (0, err) at once
KickUserCall(userUUID, listOK, connections) ==
    /\ kick.pc \in {"idle", "done"}
    /\ kick' = IF listOK
               THEN [pc |-> "loop", uuid |-> userUUID, listed |-> TRUE,
                     conns |-> connections, idx |-> 1, kicked |-> 0,
                     tried |-> <<>>, ret |-> [n |-> 0, err |-> FALSE]]
               ELSE [pc |-> "done", uuid |-> userUUID, listed |-> FALSE,
                     conns |-> <<>>, idx |-> 0, kicked |-> 0,
                     tried |-> <<>>, ret |-> [n |-> 0, err |-> TRUE]]
    /\ UNCHANGED <<supVars, quotaVars, genVars, agentVars, mainVars, spool, sclock,
                   flush, report>>

\* a variant of the loop body that gives up at the first failed DELETE
KickStepStopOnFailure(ok) ==
    /\ kick.pc = "loop"
    /\ kick.idx <= Len(kick.conns)
    /\ LET conn == kick.conns[kick.idx] IN
       kick' = IF conn.user # kick.uuid
               THEN [kick EXCEPT !.idx = @ + 1]
               ELSE IF ok
               THEN [kick EXCEPT
                       !.idx = @ + 1, !.kicked = @ + 1,
                       !.tried = Append(@, [id |-> conn.id, ok |-> TRUE])]
               ELSE [kick EXCEPT
                       !.idx = Len(kick.conns) + 1,
                       !.tried = Append(@, [id |-> conn.id, ok |-> FALSE])]
    /\ UNCHANGED <<supVars, quotaVars, genVars, agentVars, mainVars, spool, sclock,
                   flush, report>>

\* one pass of the loop: KickConnection for a session of the user, whose
\* failure is skipped with continue
KickStep(ok) ==
    /\ kick.pc = "loop"
    /\ kick.idx <= Len(kick.conns)
    /\ LET conn == kick.conns[kick.idx] IN
       kick' = IF conn.user # kick.uuid
               THEN [kick EXCEPT !.idx = @ + 1]
               ELSE [kick EXCEPT
                       !.idx = @ + 1,
                       !.kicked = IF ok THEN @ + 1 ELSE @,
                       !.tried = Append(@, [id |-> conn.id, ok |-> ok])]
    /\ UNCHANGED <<supVars, quotaVars, genVars, agentVars, mainVars, spool, sclock,
                   flush, report>>

\* return kicked, nil
KickReturn ==
    /\ kick.pc = "loop"
    /\ kick.idx > Len(kick.conns)
    /\ kick' = [kick EXCEPT !.pc = "done",
                            !.ret = [n |-> kick.kicked, err |-> FALSE]]
    /\ UNCHANGED <<supVars, quotaVars, genVars, agentVars, mainVars, spool, sclock,
                   flush, report>>

\* ------------------------------------------------------------------
\* stats.Reporter: the spool of batches that could not be sent
\* (saveToCache) and its replay (FlushCache).

\* the decimal digits of n, as fmt.Sprintf("%d") writes them
RECURSIVE Digits(_)
Digits(n) == IF n < 10 THEN <<n>> ELSE Append(Digits(n \div 10), n % 10)

\* string comparison of two file names stats_<a>.json and stats_<b>.json
RECURSIVE LexLess(_, _)
LexLess(a, b) ==
    IF a = <<>> THEN b # <<>>
    ELSE IF b = <<>> THEN FALSE
    ELSE IF Head(a) # Head(b) THEN Head(a) < Head(b)
    ELSE LexLess(Tail(a), Tail(b))

\* a listing of the spool with the newest name first
GlobNewestFirst(sp) ==
    CHOOSE s \in [1..Cardinality(DOMAIN sp) -> DOMAIN sp] :
        \A i, j \in DOMAIN s : i < j => LexLess(Digits(s[j]), Digits(s[i]))

\* filepath.Glob: the matching names in lexical order
Glob(sp) ==
    CHOOSE s \in [1..Cardinality(DOMAIN sp) -> DOMAIN sp] :
        \A i, j \in DOMAIN s : i < j => LexLess(Digits(s[i]), Digits(s[j]))

\* the empty cache directory
NoSpool == [f \in {} |-> "batch"]

\* no call of FlushCache made yet
NoFlush ==
    [pc |-> "idle", files |-> <<>>, idx |-> 0, log |-> <<>>, ret |-> "none"]

\* r.mu, which FlushCache holds from its first to its last statement
FlushLocked == flush.pc = "loop"

\* saveToCache: a file named after the clock; a write that is cut short
\* leaves a file that does not parse
SaveToCache(intact) ==
    /\ ~FlushLocked
    /\ sclock < FirstStamp + MaxSpool
    /\ spool' = [f \in DOMAIN spool \cup {sclock} |->
                   IF f = sclock
                   THEN (IF intact THEN "batch" ELSE "corrupt")
                   ELSE spool[f]]
    /\ sclock' = sclock + 1
    /\ UNCHANGED <<supVars, quotaVars, genVars, agentVars, mainVars, kick, flush,
                   report>>

\* the spool without one file (os.Remove)
Remove(sp, file) == [f \in DOMAIN sp \ {file} |-> sp[f]]

\* FlushCache up to the listing of the directory
FlushBegin ==
    /\ flush.pc \in {"idle", "done"}
    /\ flush' = [pc |-> "loop", files |-> Glob(spool), idx |-> 1,
                 log |-> <<>>, ret |-> "none"]
    /\ UNCHANGED <<supVars, quotaVars, genVars, agentVars, mainVars, kick, spool,
                   sclock, report>>

\* one pass of the loop of FlushCache over files[idx]
FlushStep(readOK, sendOK) ==
    /\ flush.pc = "loop"
    /\ flush.idx <= Len(flush.files)
    /\ LET file == flush.files[flush.idx]
           Logged(what) == Append(flush.log, [file |-> file, what |-> what])
       IN
       IF ~readOK
       THEN /\ flush' = [flush EXCEPT !.idx = @ + 1,
                                      !.log = Logged("unreadable")]
            /\ spool' = spool
       ELSE IF spool[file] = "corrupt"
       THEN /\ flush' = [flush EXCEPT !.idx = @ + 1,
                                      !.log = Logged("corrupt")]
            /\ spool' = Remove(spool, file)
       ELSE IF ~sendOK
       THEN /\ flush' = [flush EXCEPT !.pc = "done", !.ret = "error",
                                      !.log = Logged("failed")]
            /\ spool' = spool
       ELSE /\ flush' = [flush EXCEPT !.idx = @ + 1, !.log = Logged("sent")]
            /\ spool' = Remove(spool, file)
    /\ UNCHANGED <<supVars, quotaVars, genVars, agentVars, mainVars, kick, sclock,
                   report>>

\* return nil after the last file
FlushReturn ==
    /\ flush.pc = "loop"
    /\ flush.idx > Len(flush.files)
    /\ flush' = [flush EXCEPT !.pc = "done", !.ret = "ok"]
    /\ UNCHANGED <<supVars, quotaVars, genVars, agentVars, mainVars, kick, spool,
                   sclock, report>>

\* the users a collected batch can name
StatsUsersOf == {"A", "B"}

\* UserStats: the traffic of one user since the last collection
UserStats(upload, download) == [upload |-> upload, download |-> download]

\* what Collect can hand to Report: a map from some users to their traffic
StatsMaps ==
    UNION {[ids -> {UserStats(u, d) : u, d \in {0, 1}}] :
             ids \in SUBSET StatsUsersOf}

\* report.Stats: the entries with traffic (reporter.go:62-70)
StatsEntries(stats) ==
    {[uuid |-> id, upload |-> stats[id].upload,
      download |-> stats[id].download] :
        id \in {i \in DOMAIN stats :
                  stats[i].upload > 0 \/ stats[i].download > 0}}

\* no call of Report made yet
NoReport ==
    [n |-> 0, stats |-> [id \in {} |-> UserStats(0, 0)], sent |-> {},
     file |-> 0, err |-> FALSE]

\* a reporter that spools whatever the send returned
SendFailedAlways(sendOK) == TRUE

\* err != nil from r.send (reporter.go:76)
SendFailed(sendOK) == ~sendOK

\* Report: send the entries with traffic, spool them if the send failed;
\* os.WriteFile writes the file ("ok"), fails before it creates it
\* ("none") or fails after it has written a part of it ("partial")
Report(stats, sendOK, write) ==
    /\ ~FlushLocked
    /\ report.n < MaxReports
    /\ LET entries == StatsEntries(stats)
           called == [n |-> report.n + 1, stats |-> stats, sent |-> {},
                      file |-> 0, err |-> FALSE]
       IN
       IF entries = {}
       THEN /\ report' = called
            /\ UNCHANGED <<spool, sclock>>
       ELSE IF ~SendFailed(sendOK)
       THEN /\ report' = [called EXCEPT !.sent = entries]
            /\ UNCHANGED <<spool, sclock>>
       ELSE /\ sclock' = sclock + 1
            /\ IF write = "none"
               THEN /\ report' = [called EXCEPT !.err = TRUE]
                    /\ spool' = spool
               ELSE /\ report' = [called EXCEPT
                                    !.sent = IF sendOK THEN entries ELSE {},
                                    !.file = sclock,
                                    !.err = write # "ok"]
                    /\ spool' = [f \in DOMAIN spool \cup {sclock} |->
                                   IF f = sclock
                                   THEN (IF write = "ok" THEN "batch"
                                         ELSE "corrupt")
                                   ELSE spool[f]]
    /\ UNCHANGED <<supVars, quotaVars, genVars, agentVars, mainVars, kick, flush>>

\* the connection manager and the reporter before any call
InitIoIdle ==
    /\ kick = NoKick
    /\ spool = NoSpool
    /\ sclock = FirstStamp
    /\ flush = NoFlush
    /\ report = NoReport

(***************************************************************************)
(* Users: internal/config/types.go                                         *)
(***************************************************************************)
UUIDs == {"A", "B", "C"}

\* ExpireAt *time.Time: nil, or a second of the clock
NoExpire == [set |-> FALSE, at |-> 0]

ExpireAt(t) == [set |-> TRUE, at |-> t]

\* config.User (types.go:35-44)
User(uuid, protocols, ssPassword, enabled, limit, used, expire, deviceID) ==
    [uuid |-> uuid, protocols |-> protocols, ssPassword |-> ssPassword,
     enabled |-> enabled, limit |-> limit, used |-> used, expire |-> expire,
     deviceID |-> deviceID]

\* int64, scaled down to IntBits bits: the largest value, and the value a
\* sum wraps to
MaxInt == 2 ^ (IntBits - 1) - 1

Wrap(x) == ((x + 2 ^ (IntBits - 1)) % 2 ^ IntBits) - 2 ^ (IntBits - 1)

(***************************************************************************)
(* Configuration generators: config.Generator and                          *)
(* config.MultiProtocolGenerator                                           *)
(***************************************************************************)
\* a faulty selection that skips nobody
ActiveAll(list, circuitBreakerEnabled) == list

\* the users Generate does not skip
Active(list, circuitBreakerEnabled) ==
    SelectSeq(list, LAMBDA u : ~(circuitBreakerEnabled \/ ~u.enabled))

\* the credential entry appended for user u and protocol proto
Credential(u, proto) ==
    CASE proto = "vless" -> [uuid |-> u.uuid, flow |-> "xtls-rprx-vision"]
      [] proto = "shadowsocks" -> [name |-> u.uuid, password |-> u.ssPassword]
      [] proto = "vmess" -> [uuid |-> u.uuid]
      [] proto = "trojan" -> [password |-> u.uuid]
      [] proto = "hysteria2" -> [password |-> u.uuid]
      [] proto = "tuic" -> [uuid |-> u.uuid, password |-> u.ssPassword]

\* the user a credential entry of a proto inbound admits
CredentialUUID(proto, c) ==
    CASE proto \in {"vless", "vmess", "tuic"} -> c.uuid
      [] proto = "shadowsocks" -> c.name
      [] proto \in {"trojan", "hysteria2"} -> c.password

\* the entries one user adds to the list of proto: one for each occurrence
\* of proto in u.Protocols
RECURSIVE UserCredentials(_, _, _)
UserCredentials(u, protocols, proto) ==
    IF protocols = <<>> THEN <<>>
    ELSE (IF Head(protocols) = proto THEN <<Credential(u, proto)>> ELSE <<>>)
         \o UserCredentials(u, Tail(protocols), proto)

\* the list of proto after the loop over the users
RECURSIVE Credentials(_, _)
Credentials(list, proto) ==
    IF list = <<>> THEN <<>>
    ELSE UserCredentials(Head(list), Head(list).protocols, proto)
         \o Credentials(Tail(list), proto)

\* a faulty stats list that leaves out the users without protocols
StatsUsersWithProtocol(list) ==
    LET named == SelectSeq(list, LAMBDA u : u.protocols # <<>>)
    IN [i \in 1..Len(named) |-> named[i].uuid]

\* statsUsers after the loop
StatsUsers(list) == [i \in 1..Len(list) |-> list[i].uuid]

Inbound(proto, list) == [type |-> proto, users |-> Credentials(list, proto)]

\* Generator.Generate (part_005:29-131)
Generate(list, realitySNI, circuitBreakerEnabled) ==
    LET act == Active(list, circuitBreakerEnabled) IN
    [sni |-> realitySNI,
     inbounds |-> <<Inbound("vless", act), Inbound("shadowsocks", act)>>,
     stats |-> StatsUsers(act)]

\* the protocols that need a certificate
TLSProtocols == <<"vmess", "trojan", "hysteria2", "tuic">>

\* g.nodeConfig after initMultiProtocol (part_011:49-74, 100-103) and
\* hasTLSCert (part_006:142): tls are the protocols with a port
NodeConfig(realitySNI, protocols, tls, hasTLSCert) ==
    [realitySNI |-> realitySNI, protocols |-> protocols, tls |-> tls,
     hasTLSCert |-> hasTLSCert]

\* MultiProtocolGenerator.Generate (part_006:37-247)
MultiGenerate(list, circuitBreakerEnabled, node) ==
    LET act == Active(list, circuitBreakerEnabled)
        ss == Credentials(act, "shadowsocks")
        emitted == SelectSeq(TLSProtocols, LAMBDA proto :
                      /\ proto \in node.protocols
                      /\ proto \in node.tls
                      /\ node.hasTLSCert)
    IN [sni |-> node.realitySNI,
        inbounds |->
            (IF "vless" \in node.protocols
               THEN <<Inbound("vless", act)>> ELSE <<>>)
            \o (IF "shadowsocks" \in node.protocols /\ Len(ss) > 0
                  THEN <<Inbound("shadowsocks", act)>> ELSE <<>>)
            \o [i \in 1..Len(emitted) |-> Inbound(emitted[i], act)],
        stats |-> StatsUsers(act)]

\* the UUIDs of the stats-export list of a configuration
StatsSet(cfg) == {cfg.stats[i] : i \in 1..Len(cfg.stats)}

\* the UUIDs admitted by the per-protocol user lists of a configuration
CredentialSet(cfg) ==
    UNION {{CredentialUUID(cfg.inbounds[k].type, cfg.inbounds[k].users[j]) :
               j \in 1..Len(cfg.inbounds[k].users)} :
           k \in 1..Len(cfg.inbounds)}

\* the per-protocol user lists and the stats list of a configuration, as sets
Lists(cfg) ==
    [stats |-> StatsSet(cfg),
     users |-> UNION {{<<cfg.inbounds[k].type, cfg.inbounds[k].users[j]>> :
                          j \in 1..Len(cfg.inbounds[k].users)} :
                      k \in 1..Len(cfg.inbounds)}]

NoLists == [stats |-> {}, users |-> {}]

NoConfig == [sni |-> "", inbounds |-> <<>>, stats |-> <<>>, none |-> TRUE]

\* the arguments of a generator call not made yet
GenArgs(list, circuitBreakerEnabled, node) ==
    [kind |-> "none", list |-> list, cb |-> circuitBreakerEnabled,
     node |-> node]

\* the basic protocols only (part_011:62)
BasicNode(realitySNI) ==
    NodeConfig(realitySNI, {"vless", "shadowsocks"}, {}, FALSE)

\* no generator call
InitGenIdle ==
    /\ gin = GenArgs(<<>>, FALSE, BasicNode(""))
    /\ gout = NoConfig

(***************************************************************************)
(* Quota monitor: internal/quota/monitor.go                                *)
(***************************************************************************)
\* NewMonitor (monitor.go:29-34): the empty map
NoUsers == [id \in {} |-> 0]

\* a faulty UpdateUsers that starts every session counter at zero
UpdateUsersFresh(old, list) ==
    LET en == {i \in 1..Len(list) : list[i].enabled}
        last(id) == CHOOSE i \in en :
                       /\ list[i].uuid = id
                       /\ \A j \in en : list[j].uuid = id => j <= i
    IN [id \in {list[i].uuid : i \in en} |->
          [uuid |-> id,
           limit |-> list[last(id)].limit,
           used |-> list[last(id)].used,
           session |-> 0,
           expire |-> list[last(id)].expire,
           enabled |-> list[last(id)].enabled]]

\* UpdateUsers (monitor.go:37-67): the map built from list, given the map old
UpdateUsers(old, list) ==
    LET en == {i \in 1..Len(list) : list[i].enabled}
        last(id) == CHOOSE i \in en :
                       /\ list[i].uuid = id
                       /\ \A j \in en : list[j].uuid = id => j <= i
    IN [id \in {list[i].uuid : i \in en} |->
          [uuid |-> id,
           limit |-> list[last(id)].limit,
           used |-> list[last(id)].used,
           session |-> IF id \in DOMAIN old THEN old[id].session ELSE 0,
           expire |-> list[last(id)].expire,
           enabled |-> list[last(id)].enabled]]

\* a test of the expiry that never finds a user expired
ExpiredNever(q) == q.expire.set /\ now > MaxNow

\* user.ExpireAt != nil && time.Now().After(*user.ExpireAt)
Expired(q) == q.expire.set /\ now > q.expire.at

\* a faulty delete that leaves the entry in the map
DeleteNothing(m, uuid) == m

\* delete(m.users, uuid)
Delete(m, uuid) == [id \in DOMAIN m \ {uuid} |-> m[id]]

\* go m.onRemove(uuid, reason)
OnRemove(r, uuid, reason) == [r EXCEPT ![uuid] = Append(@, reason)]

NoCheck == [called |-> FALSE]

\* what CheckUser(uuid, n) saw of q and returned; total is the server-used
\* amount plus every byte passed for this user so far, n included
Checked(uuid, n, q, allowed) ==
    [called |-> TRUE, uuid |-> uuid, n |-> n, known |-> TRUE,
     limit |-> q.limit, used |-> q.used, expires |-> q.expire.set,
     total |-> q.used + acc[uuid] + n, allowed |-> allowed]

\* a caller that ignores m.mu
LockIgnored == TRUE

\* m.mu.Lock() / m.mu.RLock() succeeds: no UpdateUsers call holds m.mu
Unlocked == ~qmu

\* no UpdateUsers call in progress
NoUpdate ==
    /\ qmu = FALSE
    /\ newUsers = NoUsers
    /\ ulist = <<>>
    /\ upos = 0
    /\ nupd = 0

\* CheckUser (monitor.go:70-107)
CheckUser(uuid, n) ==
    /\ Unlocked
    /\ acc[uuid] + n <= 2 ^ IntBits
    /\ IF uuid \notin DOMAIN users
         THEN /\ qret' = [called |-> TRUE, uuid |-> uuid, n |-> n,
                          known |-> FALSE, allowed |-> FALSE]
              /\ UNCHANGED <<users, removed, acc, swept>>
         ELSE LET q == [users[uuid] EXCEPT !.session = Wrap(@ + n)] IN
              /\ acc' = [acc EXCEPT ![uuid] = @ + n]
              /\ IF Expired(q)
                   THEN /\ users' = Delete(users, uuid)
                        /\ removed' = OnRemove(removed, uuid, "expired")
                        /\ swept' = swept \cup {uuid}
                        /\ qret' = Checked(uuid, n, q, FALSE)
                 ELSE IF q.limit > 0 /\ Wrap(q.used + q.session) >= q.limit
                   THEN /\ users' = Delete(users, uuid)
                        /\ removed' = OnRemove(removed, uuid, "quota_exceeded")
                        /\ qret' = Checked(uuid, n, q, FALSE)
                        /\ UNCHANGED swept
                 ELSE /\ users' = [users EXCEPT ![uuid] = q]
                      /\ qret' = Checked(uuid, n, q, TRUE)
                      /\ UNCHANGED <<removed, swept>>
    /\ UNCHANGED <<supVars, genVars, agentVars, ioVars, mainVars, now, updVars>>

\* the loop of CheckAllUsers over the expired users (monitor.go:150-158)
RECURSIVE DeleteAll(_, _)
DeleteAll(m, ids) ==
    IF ids = {} THEN m
    ELSE LET id == CHOOSE x \in ids : TRUE
         IN DeleteAll(Delete(m, id), ids \ {id})

\* CheckAllUsers (monitor.go:145-159)
Sweep ==
    LET gone == {id \in DOMAIN users : Expired(users[id])} IN
    /\ Unlocked
    /\ users' = DeleteAll(users, gone)
    /\ removed' = [id \in UUIDs |->
                     IF id \in gone THEN Append(removed[id], "expired")
                     ELSE removed[id]]
    /\ swept' = swept \cup gone
    /\ qret' = NoCheck

\* CheckAllUsers called on its own
CheckAllUsers ==
    /\ Sweep
    /\ UNCHANGED <<supVars, genVars, agentVars, ioVars, mainVars, now, acc, updVars>>

\* a second passes
ClockTick ==
    /\ now < MaxNow
    /\ now' = now + 1
    /\ qret' = NoCheck
    /\ UNCHANGED <<supVars, genVars, agentVars, ioVars, mainVars, users, removed, acc, swept,
                   updVars>>

\* the result of the UpdateUsers call that has just returned
UpdateDone == [called |-> FALSE, updated |-> TRUE]

\* UpdateUsers takes m.mu and makes newUsers (monitor.go:38-42)
UpdateBegin(list) ==
    /\ Unlocked
    /\ nupd < MaxUpd
    /\ nupd' = nupd + 1
    /\ qmu' = TRUE
    /\ newUsers' = NoUsers
    /\ ulist' = list
    /\ upos' = 0
    /\ qret' = NoCheck
    /\ UNCHANGED <<supVars, genVars, agentVars, ioVars, mainVars, users, now, removed, acc,
                   swept>>

\* one pass of the loop of UpdateUsers (monitor.go:44-63)
UpdateStep ==
    /\ qmu
    /\ upos < Len(ulist)
    /\ LET u == ulist[upos + 1] IN
       newUsers' = IF ~u.enabled THEN newUsers
                   ELSE [id \in DOMAIN newUsers \cup {u.uuid} |->
                           IF id = u.uuid
                             THEN UpdateUsers(users, <<u>>)[id]
                             ELSE newUsers[id]]
    /\ upos' = upos + 1
    /\ qret' = NoCheck
    /\ UNCHANGED <<supVars, genVars, agentVars, ioVars, mainVars, users, now, removed, acc,
                   swept, qmu, ulist, nupd>>

\* m.users = newUsers and the release of m.mu (monitor.go:65-67, 39)
UpdateEnd ==
    /\ qmu
    /\ upos = Len(ulist)
    /\ users' = newUsers
    /\ qmu' = FALSE
    /\ newUsers' = NoUsers
    /\ ulist' = <<>>
    /\ upos' = 0
    /\ qret' = UpdateDone
    /\ UNCHANGED <<supVars, genVars, agentVars, ioVars, mainVars, now, removed, acc, swept,
                   nupd>>

\* GetAllSessionTraffic (monitor.go:120-131)
GetAllSessionTraffic ==
    /\ Unlocked
    /\ qret' = [called |-> FALSE,
                traffic |-> [id \in {x \in DOMAIN users :
                                        users[x].session > 0} |->
                               users[id].session]]
    /\ UNCHANGED <<supVars, genVars, agentVars, ioVars, mainVars, users, now, removed, acc,
                   swept, updVars>>

\* ResetSessionTraffic (monitor.go:134-141)
ResetSessionTraffic ==
    /\ Unlocked
    /\ users' = [id \in DOMAIN users |-> [users[id] EXCEPT !.session = 0]]
    /\ qret' = NoCheck
    /\ UNCHANGED <<supVars, genVars, agentVars, ioVars, mainVars, now, removed, acc, swept,
                   updVars>>

\* the monitor before the agent's first UpdateUsers
InitQuotaIdle ==
    /\ users = NoUsers
    /\ now = 0
    /\ removed = [id \in UUIDs |-> <<>>]
    /\ acc = [id \in UUIDs |-> 0]
    /\ swept = {}
    /\ qret = NoCheck
    /\ NoUpdate

(***************************************************************************)
(* Local Store: package local (part_003)                                   *)
(***************************************************************************)
\* LocalUser (part_003:17-28)
LocalUser(uuid, protocols, enabled) ==
    [uuid |-> uuid, protocols |-> protocols, ssPassword |-> "local",
     enabled |-> enabled, limit |-> 0, used |-> 0, expire |-> NoExpire]

\* the config.User built from a LocalUser (main.go:387-395, 449-457)
ToConfigUser(lu) ==
    User(lu.uuid, lu.protocols, lu.ssPassword, lu.enabled, lu.limit, lu.used,
         lu.expire, "")

\* the orders in which a range over a map with these keys may visit them
Orders(keys) ==
    {f \in [1..Cardinality(keys) -> keys] :
        \A i, j \in 1..Cardinality(keys) : i # j => f[i] # f[j]}

\* the slices a range over the map m may build
Slices(m) == {[i \in 1..Len(f) |-> m[f[i]]] : f \in Orders(DOMAIN m)}

\* Store.ListUsers (part_003:190-199)
ListUsers == Slices(storeUsers)

\* the goroutines that run regenerateConfig: 0 is the main goroutine
\* (main.go:256, 301), the others run a callback of the store (main.go:152-156)
Callbacks == DOMAIN rpc \ {0}

NoLoc == [list |-> <<>>, cb |-> FALSE]

\* a store that starts no callback
OnChangeNever == UNCHANGED rpc

\* go s.onChange() (part_003:168-170): the first free goroutine starts
\* regenerateConfig
OnChange ==
    LET g == CHOOSE c \in Callbacks :
                /\ rpc[c] = "idle"
                /\ \A e \in Callbacks : rpc[e] = "idle" => c <= e
    IN rpc' = [rpc EXCEPT ![g] = "list"]

\* a mutation of the store, through the local API that local and hybrid
\* mode serve, is counted; a goroutine is free for its callback
Mutation ==
    /\ mode # "remote"
    /\ nmut < MaxMut
    /\ \E c \in Callbacks : rpc[c] = "idle"
    /\ nmut' = nmut + 1
    /\ UNCHANGED <<outside, running, users, mode, multiProto, currentVersion,
                   cache, configFile, apc, aloc, rloc, lastRemote, bootFailed,
                   nticks>>

\* LocalUsersData as save() writes it (part_003:99-116); a save that fails
\* is taken to leave the file as it was
Saved(localUsers, breaker) == [users |-> localUsers, cb |-> breaker]

\* what a mutation returns: err is nil or not
Returned(op, failed) == [op |-> op, err |-> failed]

\* no mutation made yet
NoMutation == Returned("none", FALSE)

\* Store.CreateUser (part_003:120-173); uuid.New() gives an unused uuid
CreateUser(uuid, protocols, saveOK) ==
    /\ Mutation
    /\ uuid \notin DOMAIN storeUsers
    /\ LET p == IF Len(protocols) = 0 THEN <<"vless", "shadowsocks">>
                ELSE protocols
           added == [id \in DOMAIN storeUsers \cup {uuid} |->
                       IF id = uuid THEN LocalUser(uuid, p, TRUE)
                       ELSE storeUsers[id]]
       IN IF saveOK
            THEN /\ storeUsers' = added
                 /\ storeFile' = Saved(added, circuitBreaker)
                 /\ OnChange
            ELSE UNCHANGED <<storeUsers, storeFile, rpc>>
    /\ mret' = Returned("CreateUser", ~saveOK)
    /\ UNCHANGED <<circuitBreaker, brkBefore>>

\* Store.UpdateUser (part_003:202-246) with req.Enabled set
UpdateUser(uuid, enabled, saveOK) ==
    /\ Mutation
    /\ IF uuid \notin DOMAIN storeUsers
         THEN /\ mret' = Returned("UpdateUser", TRUE)
              /\ UNCHANGED <<storeUsers, storeFile, rpc>>
         ELSE /\ storeUsers' = [storeUsers EXCEPT ![uuid].enabled = enabled]
              /\ mret' = Returned("UpdateUser", ~saveOK)
              /\ IF saveOK
                   THEN /\ storeFile' = Saved(storeUsers', circuitBreaker)
                        /\ OnChange
                   ELSE UNCHANGED <<storeFile, rpc>>
    /\ UNCHANGED <<circuitBreaker, brkBefore>>

\* Store.DeleteUser (part_003:249-269)
DeleteUser(uuid, saveOK) ==
    /\ Mutation
    /\ IF uuid \notin DOMAIN storeUsers
         THEN /\ mret' = Returned("DeleteUser", TRUE)
              /\ UNCHANGED <<storeUsers, storeFile, rpc>>
         ELSE /\ storeUsers' = Delete(storeUsers, uuid)
              /\ mret' = Returned("DeleteUser", ~saveOK)
              /\ IF saveOK
                   THEN /\ storeFile' = Saved(storeUsers', circuitBreaker)
                        /\ OnChange
                   ELSE UNCHANGED <<storeFile, rpc>>
    /\ UNCHANGED <<circuitBreaker, brkBefore>>

\* no mutation of the store yet and nothing in progress: the configuration
\* file is the one the start of the agent and its syncs have left
Settled ==
    /\ nmut = 0
    /\ apc = "loop"
    /\ \A g \in DOMAIN rpc : rpc[g] = "idle"
    /\ configFile # NoConfig

\* Store.SetCircuitBreaker (part_003:316-341); the first activation of the
\* breaker records the lists of the configuration file it finds
SetCircuitBreaker(enabled, saveOK) ==
    /\ Mutation
    /\ circuitBreaker' = enabled
    /\ mret' = Returned("SetCircuitBreaker", ~saveOK)
    /\ IF saveOK
         THEN /\ storeFile' = Saved(storeUsers, enabled)
              /\ OnChange
         ELSE UNCHANGED <<storeFile, rpc>>
    /\ brkBefore' = IF enabled /\ ~circuitBreaker /\ Settled
                      THEN [set |-> TRUE, lists |-> Lists(configFile),
                            store |-> storeUsers, remote |-> lastRemote]
                      ELSE brkBefore
    /\ UNCHANGED storeUsers

(***************************************************************************)
(* The agent: cmd/agent/main.go                                            *)
(***************************************************************************)
\* no activation of the breaker seen
NoBefore ==
    [set |-> FALSE, lists |-> NoLists, store |-> NoUsers, remote |-> <<>>]

\* the users of the store, as a set
StoreSet == {storeUsers[id] : id \in DOMAIN storeUsers}

\* regenerateConfig returns in goroutine g; the main goroutine goes on to
\* start the subprocess (main.go:205-212)
RegenReturn(g) ==
    /\ rpc' = [rpc EXCEPT ![g] = "idle"]
    /\ rloc' = [rloc EXCEPT ![g] = NoLoc]
    /\ apc' = IF g = 0 THEN "start" ELSE apc

\* regenerateConfig: a.localStore.ListUsers() and the conversion
\* (main.go:383-396)
RegenList(g) ==
    /\ rpc[g] = "list"
    /\ \E l \in ListUsers :
          rloc' = [rloc EXCEPT ![g] =
                     [list |-> [i \in 1..Len(l) |-> ToConfigUser(l[i])],
                      cb |-> FALSE]]
    /\ rpc' = [rpc EXCEPT ![g] = "breaker"]
    /\ UNCHANGED <<beyond, running, users, mode, multiProto, currentVersion,
                   cache, configFile, apc, aloc, storeUsers, circuitBreaker,
                   lastRemote, bootFailed, brkBefore, nmut, nticks>>

\* regenerateConfig: a.localStore.IsCircuitBreakerEnabled() (main.go:399)
RegenBreaker(g) ==
    /\ rpc[g] = "breaker"
    /\ rloc' = [rloc EXCEPT ![g].cb = circuitBreaker]
    /\ rpc' = [rpc EXCEPT ![g] = "update"]
    /\ UNCHANGED <<beyond, running, users, mode, multiProto, currentVersion,
                   cache, configFile, apc, aloc, storeUsers, circuitBreaker,
                   lastRemote, bootFailed, brkBefore, nmut, nticks>>

\* regenerateConfig: a.monitor.UpdateUsers(users) (main.go:407)
RegenUpdate(g) ==
    /\ rpc[g] = "update"
    /\ users' = UpdateUsers(users, rloc[g].list)
    /\ rpc' = [rpc EXCEPT ![g] = "write"]
    /\ UNCHANGED <<beyond, running, mode, multiProto, currentVersion, cache,
                   configFile, apc, aloc, rloc, storeUsers, circuitBreaker,
                   lastRemote, bootFailed, brkBefore, nmut, nticks>>

\* regenerateConfig: Generate and WriteToFile (main.go:410-415)
RegenWrite(g, writeOK) ==
    /\ rpc[g] = "write"
    /\ LET cfg == Generate(rloc[g].list, "www.microsoft.com", rloc[g].cb) IN
       IF writeOK
         THEN /\ configFile' = cfg
              /\ rpc' = [rpc EXCEPT ![g] = "reload"]
              /\ UNCHANGED <<rloc, apc>>
         ELSE /\ RegenReturn(g)
              /\ UNCHANGED configFile
    /\ UNCHANGED <<beyond, running, users, mode, multiProto, currentVersion,
                   cache, aloc, storeUsers, circuitBreaker, lastRemote,
                   bootFailed, brkBefore, nmut, nticks>>

\* regenerateConfig: Reload if the subprocess is running (main.go:418-423);
\* a failed Reload leaves it stopped
RegenReload(g, reloadOK) ==
    /\ rpc[g] = "reload"
    /\ running' = (running /\ reloadOK)
    /\ RegenReturn(g)
    /\ UNCHANGED <<beyond, users, mode, multiProto, currentVersion, cache,
                   configFile, aloc, storeUsers, circuitBreaker, lastRemote,
                   bootFailed, brkBefore, nmut, nticks>>

\* the map userMap of syncAndApplyHybrid (main.go:440-458) with the local
\* and the remote users in exchanged roles: the remote entry wins
MergeRemoteWins(remote, localUsers) ==
    LET rids == {remote[i].uuid : i \in 1..Len(remote)}
        lids == {localUsers[i].uuid : i \in 1..Len(localUsers)}
        rlast(id) == CHOOSE i \in 1..Len(remote) :
                        /\ remote[i].uuid = id
                        /\ \A j \in 1..Len(remote) :
                              remote[j].uuid = id => j <= i
        llast(id) == CHOOSE i \in 1..Len(localUsers) : localUsers[i].uuid = id
    IN [id \in rids \cup lids |->
          IF id \in rids THEN remote[rlast(id)]
          ELSE ToConfigUser(localUsers[llast(id)])]

\* the map userMap of syncAndApplyHybrid (main.go:440-458): the remote
\* users, then the local users over them
MergeUsers(remote, localUsers) ==
    LET rids == {remote[i].uuid : i \in 1..Len(remote)}
        lids == {localUsers[i].uuid : i \in 1..Len(localUsers)}
        rlast(id) == CHOOSE i \in 1..Len(remote) :
                        /\ remote[i].uuid = id
                        /\ \A j \in 1..Len(remote) :
                              remote[j].uuid = id => j <= i
        llast(id) == CHOOSE i \in 1..Len(localUsers) : localUsers[i].uuid = id
    IN [id \in rids \cup lids |->
          IF id \in lids THEN ToConfigUser(localUsers[llast(id)])
          ELSE remote[rlast(id)]]

\* UsersResponse (types.go:46-50) with Config.RealitySNI
Response(version, list, realitySNI) ==
    [version |-> version, users |-> list, sni |-> realitySNI]

NoResponse == Response("", <<>>, "")

NoCache == [present |-> FALSE, resp |-> NoResponse]

\* a.multiProto = nil
NoMulti == [on |-> FALSE, node |-> BasicNode("")]

NoALoc == [why |-> "none", resp |-> NoResponse, applied |-> "",
           list |-> <<>>, store |-> {}, cb |-> FALSE]

\* syncAndApply / syncAndApplyHybrid return to their caller: initRemoteMode
\* falls back to the cache (main.go:274-282), initHybridMode to the local
\* users (main.go:298-302), the main loop and sendHeartbeat go on
SyncReturn(failed) ==
    /\ aloc' = NoALoc
    /\ IF aloc.why # "init"
         THEN apc' = "loop" /\ UNCHANGED rpc
       ELSE IF failed /\ mode = "remote" /\ cache.present
         THEN apc' = "cache_load" /\ UNCHANGED rpc
       ELSE IF failed /\ mode = "hybrid"
         THEN apc' = "regen" /\ rpc' = [rpc EXCEPT ![0] = "list"]
       ELSE apc' = "start" /\ UNCHANGED rpc

\* Run (main.go:183-203): the initialisation of the mode begins
Run ==
    /\ apc = "boot"
    /\ IF mode = "local"
         THEN /\ apc' = "regen"
              /\ rpc' = [rpc EXCEPT ![0] = "list"]
              /\ UNCHANGED aloc
         ELSE /\ apc' = "fetch"
              /\ aloc' = [NoALoc EXCEPT !.why = "init"]
              /\ UNCHANGED rpc
    /\ UNCHANGED <<beyond, running, users, mode, multiProto, currentVersion,
                   cache, configFile, rloc, storeUsers, circuitBreaker,
                   lastRemote, bootFailed, brkBefore, nmut, nticks>>

\* the sync timer fires (main.go:351-360), or a heartbeat response asks for
\* a reload of the users (main.go:560-567)
SyncBegin ==
    /\ apc = "loop"
    /\ mode # "local"
    /\ nticks < MaxTicks
    /\ nticks' = nticks + 1
    /\ apc' = "fetch"
    /\ aloc' = [NoALoc EXCEPT !.why = "loop"]
    /\ UNCHANGED <<beyond, running, users, mode, multiProto, currentVersion,
                   cache, configFile, rpc, rloc, storeUsers, circuitBreaker,
                   lastRemote, bootFailed, brkBefore, nmut>>

\* FetchUsers fails (main.go:431-434, 669-672)
SyncFetchFail ==
    /\ apc = "fetch"
    /\ bootFailed' = (bootFailed \/ aloc.why = "init")
    /\ SyncReturn(TRUE)
    /\ UNCHANGED <<beyond, running, users, mode, multiProto, currentVersion,
                   cache, configFile, rloc, storeUsers, circuitBreaker,
                   lastRemote, brkBefore, nmut, nticks>>

\* syncAndApply: FetchUsers and the comparison of the version
\* (main.go:669-683)
SyncFetch(resp) ==
    /\ apc = "fetch"
    /\ mode = "remote"
    /\ IF currentVersion = resp.version
         THEN SyncReturn(FALSE)
         ELSE /\ apc' = "update"
              /\ aloc' = [aloc EXCEPT !.resp = resp, !.list = resp.users,
                                      !.applied = currentVersion]
              /\ UNCHANGED rpc
    /\ UNCHANGED <<beyond, running, users, mode, multiProto, currentVersion,
                   cache, configFile, rloc, storeUsers, circuitBreaker,
                   lastRemote, bootFailed, brkBefore, nmut, nticks>>

\* syncAndApplyHybrid: FetchUsers, ListUsers and the merge (main.go:431-464)
SyncFetchHybrid(resp) ==
    /\ apc = "fetch"
    /\ mode = "hybrid"
    /\ \E l \in ListUsers : \E merged \in Slices(MergeUsers(resp.users, l)) :
          aloc' = [aloc EXCEPT !.resp = resp, !.list = merged,
                               !.store = StoreSet,
                               !.applied = currentVersion]
    /\ apc' = "update"
    /\ UNCHANGED <<beyond, running, users, mode, multiProto, currentVersion,
                   cache, configFile, rpc, rloc, storeUsers, circuitBreaker,
                   lastRemote, bootFailed, brkBefore, nmut, nticks>>

\* a.monitor.UpdateUsers (main.go:470, 685)
SyncUpdate ==
    /\ apc = "update"
    /\ users' = UpdateUsers(users, aloc.list)
    /\ lastRemote' = aloc.resp.users
    /\ apc' = "save"
    /\ UNCHANGED <<beyond, running, mode, multiProto, currentVersion, cache,
                   configFile, aloc, rpc, rloc, storeUsers, circuitBreaker,
                   bootFailed, brkBefore, nmut, nticks>>

\* a.cache.SaveUsers (main.go:473-475, 687-689); a failure is only logged
SyncSave(saveOK) ==
    /\ apc = "save"
    /\ cache' = IF saveOK THEN [present |-> TRUE, resp |-> aloc.resp]
                ELSE cache
    /\ apc' = IF mode = "hybrid" THEN "breaker" ELSE "write"
    /\ UNCHANGED <<beyond, running, users, mode, multiProto, currentVersion,
                   configFile, aloc, rpc, rloc, storeUsers, circuitBreaker,
                   lastRemote, bootFailed, brkBefore, nmut, nticks>>

\* syncAndApplyHybrid: IsCircuitBreakerEnabled (main.go:478-481)
SyncBreaker ==
    /\ apc = "breaker"
    /\ aloc' = [aloc EXCEPT !.cb = circuitBreaker]
    /\ apc' = "write"
    /\ UNCHANGED <<beyond, running, users, mode, multiProto, currentVersion,
                   cache, configFile, rpc, rloc, storeUsers, circuitBreaker,
                   lastRemote, bootFailed, brkBefore, nmut, nticks>>

\* the configuration a remote-mode sync or the cache fallback generates
\* from resp (main.go:692-703, 727-733)
RemoteConfig(resp) ==
    IF multiProto.on THEN MultiGenerate(resp.users, FALSE, multiProto.node)
    ELSE Generate(resp.users, resp.sni, FALSE)

\* Generate and WriteToFile, then the new version (main.go:484-492, 692-707)
SyncWrite(writeOK) ==
    /\ apc = "write"
    /\ LET cfg == IF mode = "hybrid"
                    THEN Generate(aloc.list, aloc.resp.sni, aloc.cb)
                    ELSE RemoteConfig(aloc.resp)
       IN IF writeOK
            THEN /\ configFile' = cfg
                 /\ currentVersion' = aloc.resp.version
                 /\ apc' = "reload"
                 /\ UNCHANGED <<aloc, rpc>>
            ELSE /\ SyncReturn(TRUE)
                 /\ UNCHANGED <<configFile, currentVersion>>
    /\ UNCHANGED <<beyond, running, users, mode, multiProto, cache, rloc,
                   storeUsers, circuitBreaker, lastRemote, bootFailed,
                   brkBefore, nmut, nticks>>

\* Reload if the subprocess is running (main.go:494-499, 709-714); a
\* failed Reload leaves it stopped
SyncReload(reloadOK) ==
    /\ apc = "reload"
    /\ running' = (running /\ reloadOK)
    /\ SyncReturn(running /\ ~reloadOK)
    /\ UNCHANGED <<beyond, users, mode, multiProto, currentVersion, cache,
                   configFile, rloc, storeUsers, circuitBreaker, lastRemote,
                   bootFailed, brkBefore, nmut, nticks>>

\* applyFromCache: LoadUsers and UpdateUsers (main.go:719-724)
CacheLoad ==
    /\ apc = "cache_load"
    /\ aloc' = [aloc EXCEPT !.resp = cache.resp, !.list = cache.resp.users]
    /\ users' = UpdateUsers(users, cache.resp.users)
    /\ lastRemote' = cache.resp.users
    /\ apc' = "cache_write"
    /\ UNCHANGED <<beyond, running, mode, multiProto, currentVersion, cache,
                   configFile, rpc, rloc, storeUsers, circuitBreaker,
                   bootFailed, brkBefore, nmut, nticks>>

\* applyFromCache: Generate and WriteToFile (main.go:727-733)
CacheWrite(writeOK) ==
    /\ apc = "cache_write"
    /\ IF writeOK
         THEN configFile' = RemoteConfig(aloc.resp)
         ELSE UNCHANGED configFile
    /\ apc' = "start"
    /\ aloc' = NoALoc
    /\ UNCHANGED <<beyond, running, users, mode, multiProto, currentVersion,
                   cache, rpc, rloc, storeUsers, circuitBreaker, lastRemote,
                   bootFailed, brkBefore, nmut, nticks>>

\* a.manager.Start() (main.go:206-212), then the main loop
ManagerStart(startOK) ==
    /\ apc = "start"
    /\ running' = startOK
    /\ apc' = "loop"
    /\ UNCHANGED <<beyond, users, mode, multiProto, currentVersion, cache,
                   configFile, aloc, rpc, rloc, storeUsers, circuitBreaker,
                   lastRemote, bootFailed, brkBefore, nmut, nticks>>

(***************************************************************************)
(* The main loop: runMainLoop (main.go:311-375), one goroutine that takes  *)
(* the ticks of all tickers and the shutdown signal                        *)
(***************************************************************************)
Timers == {"quota", "sync", "stats", "heartbeat", "connections"}

\* the timers of the inner select whose handlers begin with one call
CallTimers == {"stats", "heartbeat", "connections"}

\* the tickers runMainLoop creates (main.go:318-330); Stop ends them when
\* the loop returns
Tickers(m) == IF m = "local" THEN {"quota"} ELSE Timers

\* runMainLoop not entered
NoMain ==
    [pc |-> "none", task |-> "none", stage |-> "none", failed |-> "none",
     log |-> <<>>]

\* the loop at its select, in no handler
Selecting == [NoMain EXCEPT !.pc = "select"]

\* the supervisor but for m.running
supRest == <<cmd, restartCount, sinceRestart, stopRequested, mu, lop, lpc,
             ltimer, instLimit, ncmd, proc, signalled, wpc, wcmd, wsleep,
             ret, waits, handled, attempts, gaveUp>>

\* the agent but for the position and the locals of the main goroutine
agentRest == <<mode, multiProto, currentVersion, cache, configFile, rpc, rloc,
               storeUsers, circuitBreaker, storeFile, mret, lastRemote,
               bootFailed, brkBefore, nmut, nticks>>

\* the main goroutine is at the select of the loop (main.go:335)
AtSelect == main.pc = "select" /\ apc = "loop"

\* the case of the quota ticker is ready (main.go:344)
QuotaReady == "quota" \in due

\* a ticker puts a tick in its channel, which holds one; at most MaxDue
\* channels hold a tick at once
TimerFires(t) ==
    /\ main.pc \notin {"none", "exited"}
    /\ apc # "start"
    /\ t \in Tickers(mode)
    /\ t \notin due
    /\ Cardinality(due) < MaxDue
    /\ due' = due \cup {t}
    /\ UNCHANGED <<supVars, quotaVars, genVars, agentVars, ioVars, main,
                   ctxDone>>

\* SIGINT or SIGTERM: the goroutine of main() cancels ctx (main.go:80-84)
Signal ==
    /\ main.pc # "none"
    /\ ~ctxDone
    /\ ctxDone' = TRUE
    /\ UNCHANGED <<supVars, quotaVars, genVars, agentVars, ioVars, main, due>>

\* a loop that stops the subprocess without the last report
ShutdownWithoutReport ==
    /\ AtSelect
    /\ ctxDone
    /\ main' = [main EXCEPT !.pc = "stopping"]
    /\ UNCHANGED <<supVars, quotaVars, genVars, agentVars, ioVars, due,
                   ctxDone>>

\* the select takes ctx.Done() (main.go:336-337)
Shutdown ==
    /\ AtSelect
    /\ ctxDone
    /\ main' = [main EXCEPT
                  !.pc = IF mode # "local" THEN "final" ELSE "stopping"]
    /\ UNCHANGED <<supVars, quotaVars, genVars, agentVars, ioVars, due,
                   ctxDone>>

\* the users with their session traffic set to zero (monitor.go:134-141)
SessionsReset == [id \in DOMAIN users |-> [users[id] EXCEPT !.session = 0]]

\* the last collectAndReport (main.go:338-340); a report that went out
\* resets the session traffic (main.go:750-753)
FinalReport(reported) ==
    /\ main.pc = "final"
    /\ main' = [main EXCEPT !.pc = "stopping", !.log = Append(@, "report")]
    /\ users' = IF reported THEN SessionsReset ELSE users
    /\ UNCHANGED <<supVars, now, removed, acc, swept, qret, updVars, genVars,
                   agentVars, ioVars, due, ctxDone>>

\* a.manager.Stop() (main.go:341)
StopSubprocess ==
    /\ main.pc = "stopping"
    /\ main' = [main EXCEPT !.pc = "returning", !.log = Append(@, "stop")]
    /\ running' = FALSE
    /\ UNCHANGED <<supRest, quotaVars, genVars, agentVars, ioVars, due,
                   ctxDone>>

\* return (main.go:342)
Return ==
    /\ main.pc = "returning"
    /\ main' = [main EXCEPT !.pc = "exited", !.log = Append(@, "exit")]
    /\ UNCHANGED <<supVars, quotaVars, genVars, agentVars, ioVars, due,
                   ctxDone>>

\* the select takes the quota ticker (main.go:344-345): CheckAllUsers
TakeQuota ==
    /\ AtSelect
    /\ QuotaReady
    /\ due' = due \ {"quota"}
    /\ Sweep
    /\ UNCHANGED <<supVars, now, acc, updVars, genVars, agentVars, ioVars,
                   main, ctxDone>>

\* the inner select, reached by default (main.go:347-369), can take t
InnerReady(t) ==
    /\ AtSelect
    /\ ~ctxDone
    /\ "quota" \notin due
    /\ mode # "local"
    /\ t \in due

\* the inner select takes the ticker of stats, heartbeat or connections
\* and the handler makes its first call: Collect, Heartbeat,
\* GetActiveConnections and ReportConnections
TakeTick(t) ==
    /\ t \in CallTimers
    /\ InnerReady(t)
    /\ due' = due \ {t}
    /\ main' = [main EXCEPT !.pc = "task", !.task = t, !.stage = "call"]
    /\ UNCHANGED <<supVars, quotaVars, genVars, agentVars, ioVars, ctxDone>>

\* the inner select takes the sync ticker (main.go:351-360): FetchUsers
TakeSyncTick ==
    /\ InnerReady("sync")
    /\ due' = due \ {"sync"}
    /\ main' = [main EXCEPT !.pc = "task", !.task = "sync", !.stage = "sync"]
    /\ apc' = "fetch"
    /\ aloc' = [NoALoc EXCEPT !.why = "loop"]
    /\ UNCHANGED <<supVars, quotaVars, genVars, agentRest, ioVars, ctxDone>>

\* a handler that gives the loop up when its call fails
CallFailsAndLoopEnds ==
    /\ main.pc = "task"
    /\ main.stage = "call"
    /\ main' = [main EXCEPT !.pc = "exited", !.task = "none",
                            !.stage = "none", !.failed = main.task]
    /\ UNCHANGED <<supVars, quotaVars, genVars, agentVars, ioVars, due,
                   ctxDone>>

\* the call of the handler fails and the handler returns (main.go:738-742,
\* 543-547, 601-605, 636-640); failed is the handler whose last call failed
CallFails ==
    /\ main.pc = "task"
    /\ main.stage = "call"
    /\ main' = [main EXCEPT !.pc = "select", !.task = "none",
                            !.stage = "none", !.failed = main.task]
    /\ UNCHANGED <<supVars, quotaVars, genVars, agentVars, ioVars, due,
                   ctxDone>>

\* the call of the handler succeeds and the handler goes on to its end: a
\* stats report that went out resets the session traffic (main.go:750-753);
\* the answer to a heartbeat may carry a certificate, which is installed
\* with a Reload of the running subprocess that leaves it stopped when it
\* fails (main.go:555-557, 590-596), and may ask for a sync
\* (main.go:560-567)
CallReturns(reported, certReloadOK, reloadUsers) ==
    /\ main.pc = "task"
    /\ main.stage = "call"
    /\ running' = IF main.task = "heartbeat" THEN running /\ certReloadOK
                  ELSE running
    /\ IF main.task = "heartbeat" /\ reloadUsers
         THEN /\ main' = [main EXCEPT !.stage = "sync",
                                      !.failed = IF @ = main.task
                                                 THEN "none" ELSE @]
              /\ apc' = "fetch"
              /\ aloc' = [NoALoc EXCEPT !.why = "loop"]
              /\ UNCHANGED users
         ELSE /\ main' = [main EXCEPT !.pc = "select", !.task = "none",
                                      !.stage = "none",
                                      !.failed = IF @ = main.task
                                                 THEN "none" ELSE @]
              /\ users' = IF main.task = "stats" /\ reported
                          THEN SessionsReset ELSE users
              /\ UNCHANGED <<apc, aloc>>
    /\ UNCHANGED <<supRest, now, removed, acc, swept, qret, updVars, genVars,
                   agentRest, ioVars, due, ctxDone>>

\* syncAndApply or syncAndApplyHybrid has returned to the loop or to
\* sendHeartbeat, which returns
TaskReturn ==
    /\ main.pc = "task"
    /\ main.stage = "sync"
    /\ apc = "loop"
    /\ main' = [main EXCEPT !.pc = "select", !.task = "none",
                            !.stage = "none"]
    /\ UNCHANGED <<supVars, quotaVars, genVars, agentVars, ioVars, due,
                   ctxDone>>

\* no main loop: the state of its variables in the other specifications
InitMainIdle ==
    /\ main = NoMain
    /\ due = {}
    /\ ctxDone = FALSE

\* no agent: the state of the agent's variables in the other specifications
InitAgentIdle ==
    /\ mode = "local"
    /\ multiProto = NoMulti
    /\ currentVersion = ""
    /\ cache = NoCache
    /\ configFile = NoConfig
    /\ apc = "none"
    /\ aloc = NoALoc
    /\ rpc = [g \in 0..MaxCb |-> "idle"]
    /\ rloc = [g \in 0..MaxCb |-> NoLoc]
    /\ storeUsers = NoUsers
    /\ circuitBreaker = FALSE
    /\ storeFile = Saved(NoUsers, FALSE)
    /\ mret = NoMutation
    /\ lastRemote = <<>>
    /\ bootFailed = FALSE
    /\ brkBefore = NoBefore
    /\ nmut = 0
    /\ nticks = 0

(***************************************************************************)
(* Process supervisor: internal/singbox/process.go                         *)
(***************************************************************************)
NoCmd == 0
Free == 0
Api == -1

Min(a, b) == IF a < b THEN a ELSE b

Ids == 1..instLimit

Alive(i) == proc[i] \in {"starting", "listening"}

\* a faulty probe that never finds the port occupied
PortNeverInUse == FALSE

\* net.DialTimeout to 127.0.0.1:10085 succeeds: an instance listens there
PortInUse == \E i \in Ids : proc[i] = "listening"

\* cmd.Wait() has returned: the process exited, or the Cmd never started
Waited(c) == proc[c] \in {"exited", "unstarted"}

\* a wait that grows by two seconds with every crash
BackoffLinear(n) == IF 2 * n > MaxBackoff THEN MaxBackoff ELSE 2 * n

\* process.go:253-256
Backoff(n) == IF 2 ^ n > MaxBackoff THEN MaxBackoff ELSE 2 ^ n

\* a count that a crash inside the window leaves as it is and every other
\* crash sets back to zero
NextRestartCountKept == IF sinceRestart < RestartWindow THEN restartCount ELSE 0

\* process.go:237-242
NextRestartCount == IF sinceRestart < RestartWindow THEN restartCount + 1 ELSE 1

\* no call returns in this step
NoRet == [by |-> Free, op |-> "none", err |-> "none"]

\* the lock holder h returns err from op: the lock is released; a watcher
\* that called startLocked ends with it (process.go:271-276)
Finish(h, op, err, base) ==
    /\ mu' = Free
    /\ lop' = "none"
    /\ lpc' = "none"
    /\ ltimer' = 0
    /\ ret' = [by |-> h, op |-> op, err |-> err]
    /\ wpc' = IF h = Api THEN base ELSE [base EXCEPT ![h] = "done"]

\* startLocked without its test of m.running
StartChecksAnyway(h, op, isRunning, cfgOK, binOK) ==
    IF ~cfgOK THEN Finish(h, op, "no_config", wpc)
    ELSE IF ~binOK THEN Finish(h, op, "no_binary", wpc)
    ELSE /\ mu' = h
         /\ lop' = op
         /\ lpc' = "port_wait"
         /\ ltimer' = 0
         /\ ret' = NoRet
         /\ UNCHANGED wpc

\* startLocked up to the port wait (process.go:52-68), called by h for op
\* with m.running = isRunning
StartChecks(h, op, isRunning, cfgOK, binOK) ==
    IF isRunning THEN Finish(h, op, "already_running", wpc)
    ELSE IF ~cfgOK THEN Finish(h, op, "no_config", wpc)
    ELSE IF ~binOK THEN Finish(h, op, "no_binary", wpc)
    ELSE /\ mu' = h
         /\ lop' = op
         /\ lpc' = "port_wait"
         /\ ltimer' = 0
         /\ ret' = NoRet
         /\ UNCHANGED wpc

\* Start (process.go:44-49)
Start(cfgOK, binOK) ==
    /\ UNCHANGED nonSup
    /\ mu = Free
    /\ StartChecks(Api, "Start", running, cfgOK, binOK)
    /\ UNCHANGED <<running, cmd, restartCount, sinceRestart, stopRequested,
                   instLimit, ncmd, proc, signalled, wcmd, wsleep,
                   waits, handled, attempts, gaveUp>>

\* waitForPortAvailable finds the port free (process.go:101-105) and
\* startLocked spawns (process.go:72-87); exec may fail (process.go:76-78)
PortFree(execOK) ==
    /\ UNCHANGED nonSup
    /\ mu # Free
    /\ lpc = "port_wait"
    /\ ltimer <= maxPortWaitTime
    /\ ~PortInUse
    /\ ncmd < instLimit
    /\ LET id == ncmd + 1 IN
       /\ ncmd' = id
       /\ cmd' = id
       /\ IF execOK
            THEN /\ proc' = [proc EXCEPT ![id] = "starting"]
                 /\ running' = TRUE
                 /\ stopRequested' = FALSE
                 /\ Finish(mu, lop, "ok", [wpc EXCEPT ![id] = "init"])
            ELSE /\ proc' = [proc EXCEPT ![id] = "unstarted"]
                 /\ Finish(mu, lop, "exec_failed", wpc)
                 /\ UNCHANGED <<running, stopRequested>>
    /\ UNCHANGED <<restartCount, sinceRestart, instLimit, signalled, wcmd,
                   wsleep, waits, handled, attempts, gaveUp>>

\* waitForPortAvailable times out (process.go:96-98, 68-70)
PortTimeout ==
    /\ UNCHANGED nonSup
    /\ mu # Free
    /\ lpc = "port_wait"
    /\ ltimer > maxPortWaitTime
    /\ Finish(mu, lop, "port_timeout", wpc)
    /\ UNCHANGED <<running, cmd, restartCount, sinceRestart, stopRequested,
                   instLimit, ncmd, proc, signalled, wcmd, wsleep,
                   waits, handled, attempts, gaveUp>>

\* a test that lets stopLocked return early only without a Cmd
NothingToStopWithoutCmd == cmd = NoCmd

\* !m.running || m.cmd == nil || m.cmd.Process == nil (process.go:124)
NothingToStop == ~running \/ cmd = NoCmd \/ proc[cmd] = "unstarted"

\* stopLocked up to the wait for the exit (process.go:123-136), called for op
StopBegin(op, cfgOK, binOK) ==
    IF NothingToStop
      THEN /\ running' = FALSE
           /\ UNCHANGED <<cmd, stopRequested, signalled>>
           /\ IF op = "Stop"
                THEN /\ Finish(Api, "Stop", "ok", wpc)
                     /\ UNCHANGED restartCount
                ELSE /\ restartCount' = 0
                     /\ StartChecks(Api, op, FALSE, cfgOK, binOK)
      ELSE /\ stopRequested' = TRUE
           /\ signalled' = signalled \cup {cmd}
           /\ mu' = Api
           /\ lop' = op
           /\ lpc' = "stop_wait"
           /\ ltimer' = 0
           /\ ret' = NoRet
           /\ UNCHANGED <<running, cmd, restartCount, wpc>>

\* Stop (process.go:115-120)
Stop ==
    /\ UNCHANGED nonSup
    /\ mu = Free
    /\ StopBegin("Stop", TRUE, TRUE)
    /\ UNCHANGED <<sinceRestart, instLimit, ncmd, proc, wcmd, wsleep,
                   waits, handled, attempts, gaveUp>>

\* a Reload without its test of m.running
ReloadAnyway(cfgOK, binOK) ==
    /\ UNCHANGED nonSup
    /\ mu = Free
    /\ StopBegin("Reload", cfgOK, binOK)
    /\ UNCHANGED <<sinceRestart, instLimit, ncmd, proc, wcmd, wsleep,
                   waits, handled, attempts, gaveUp>>

\* Reload (process.go:168-181)
Reload(cfgOK, binOK) ==
    /\ UNCHANGED nonSup
    /\ mu = Free
    /\ IF ~running
         THEN /\ Finish(Api, "Reload", "not_running", wpc)
              /\ UNCHANGED <<running, cmd, restartCount, stopRequested, signalled>>
         ELSE StopBegin("Reload", cfgOK, binOK)
    /\ UNCHANGED <<sinceRestart, instLimit, ncmd, proc, wcmd, wsleep,
                   waits, handled, attempts, gaveUp>>

\* the end of stopLocked (process.go:158-164); Reload goes on with
\* restartCount = 0 and startLocked (process.go:183-189)
StopEnd(cfgOK, binOK) ==
    /\ UNCHANGED nonSup
    /\ running' = FALSE
    /\ cmd' = NoCmd
    /\ IF lop = "Stop"
         THEN /\ Finish(Api, "Stop", "ok", wpc)
              /\ UNCHANGED restartCount
         ELSE /\ restartCount' = 0
              /\ StartChecks(Api, "Reload", FALSE, cfgOK, binOK)
    /\ UNCHANGED <<sinceRestart, stopRequested, instLimit, ncmd, proc,
                   signalled, wcmd, wsleep, waits, handled, attempts,
                   gaveUp>>

\* stopLocked sees the exit on the done channel (process.go:145-146, 151-152)
StopExited(cfgOK, binOK) ==
    /\ mu = Api
    /\ lpc \in {"stop_wait", "stop_kill"}
    /\ Waited(cmd)
    /\ StopEnd(cfgOK, binOK)

\* 5 seconds after SIGTERM: SIGKILL (process.go:147-148)
StopTermTimeout ==
    /\ UNCHANGED nonSup
    /\ mu = Api
    /\ lpc = "stop_wait"
    /\ ltimer >= TermWait
    /\ lpc' = "stop_kill"
    /\ ltimer' = 0
    /\ ret' = NoRet
    /\ UNCHANGED <<running, cmd, restartCount, sinceRestart, stopRequested, mu,
                   lop, instLimit, ncmd, proc, signalled, wpc, wcmd,
                   wsleep, ret, waits, handled, attempts, gaveUp>>

\* 2 seconds after SIGKILL: "kill timeout, process may be zombie"
\* (process.go:153-155); stopLocked goes on although no exit was seen
StopKillTimeout(cfgOK, binOK) ==
    /\ mu = Api
    /\ lpc = "stop_kill"
    /\ ltimer >= KillWait
    /\ StopEnd(cfgOK, binOK)

\* monitor() reads m.cmd without holding the lock (process.go:203-208)
WatchRead(w) ==
    /\ UNCHANGED nonSup
    /\ wpc[w] = "init"
    /\ IF cmd = NoCmd
         THEN /\ wpc' = [wpc EXCEPT ![w] = "done"]
              /\ UNCHANGED wcmd
         ELSE /\ wpc' = [wpc EXCEPT ![w] = "wait"]
              /\ wcmd' = [wcmd EXCEPT ![w] = cmd]
    /\ ret' = NoRet
    /\ UNCHANGED <<running, cmd, restartCount, sinceRestart, stopRequested, mu,
                   lop, lpc, ltimer, instLimit, ncmd, proc, signalled,
                   wsleep, waits, handled, attempts, gaveUp>>

\* a faulty monitor() that counts every exit as a crash
WatchExitAsCrash(w) ==
    /\ UNCHANGED nonSup
    /\ wpc[w] = "wait"
    /\ Waited(wcmd[w])
    /\ mu = Free
    /\ running' = FALSE
    /\ restartCount' = NextRestartCount
    /\ sinceRestart' = 0
    /\ handled' = handled + 1
    /\ wpc' = [wpc EXCEPT ![w] = "done"]
    /\ ret' = NoRet
    /\ UNCHANGED <<cmd, stopRequested, mu, lop, lpc, ltimer, instLimit, ncmd,
                   proc, signalled, wcmd, wsleep, waits, attempts, gaveUp>>

\* a watcher that takes every Cmd for the one it waits on
ReplacedNever(w) == wcmd[w] # wcmd[w]

\* m.cmd != cmd (process.go:222): the Cmd watcher w waits on was replaced
Replaced(w) == cmd # wcmd[w]

\* a watcher that takes the subprocess for running whatever m.running says
WasRunningAnyway == running \/ ~running

\* wasRunning := m.running (process.go:227)
WasRunning == running

\* cmd.Wait() returned and monitor() got the lock (process.go:209-263):
\* everything up to the release of the lock for the backoff sleep
WatchExit(w) ==
    /\ UNCHANGED nonSup
    /\ wpc[w] = "wait"
    /\ Waited(wcmd[w])
    /\ mu = Free
    /\ IF stopRequested
         THEN /\ running' = FALSE
              /\ wpc' = [wpc EXCEPT ![w] = "done"]
              /\ UNCHANGED <<restartCount, sinceRestart, wsleep, waits,
                             handled, gaveUp>>
       ELSE IF Replaced(w)
         THEN /\ wpc' = [wpc EXCEPT ![w] = "done"]
              /\ UNCHANGED <<running, restartCount, sinceRestart, wsleep,
                             waits, handled, gaveUp>>
       ELSE IF ~WasRunning
         THEN /\ running' = FALSE
              /\ wpc' = [wpc EXCEPT ![w] = "done"]
              /\ UNCHANGED <<restartCount, sinceRestart, wsleep, waits,
                             handled, gaveUp>>
       ELSE /\ running' = FALSE
            /\ restartCount' = NextRestartCount
            /\ sinceRestart' = 0
            /\ handled' = handled + 1
            /\ IF restartCount' > maxRestartAttempts
                 THEN /\ gaveUp' = TRUE
                      /\ wpc' = [wpc EXCEPT ![w] = "done"]
                      /\ UNCHANGED <<wsleep, waits>>
                 ELSE /\ wsleep' = [wsleep EXCEPT ![w] = Backoff(restartCount')]
                      /\ waits' = Append(waits, Backoff(restartCount'))
                      /\ wpc' = [wpc EXCEPT ![w] = "sleep"]
                      /\ UNCHANGED gaveUp
    /\ ret' = NoRet
    /\ UNCHANGED <<cmd, stopRequested, mu, lop, lpc, ltimer, instLimit, ncmd,
                   proc, signalled, wcmd,  attempts>>

\* the backoff sleep is over and monitor() has the lock again
\* (process.go:263-276)
WatchWake(w, cfgOK, binOK) ==
    /\ UNCHANGED nonSup
    /\ wpc[w] = "sleep"
    /\ wsleep[w] = 0
    /\ mu = Free
    /\ IF stopRequested
         THEN /\ wpc' = [wpc EXCEPT ![w] = "done"]
              /\ ret' = NoRet
              /\ UNCHANGED <<mu, lop, lpc, ltimer, attempts>>
         ELSE /\ attempts' = attempts + 1
              /\ StartChecks(w, "Restart", running, cfgOK, binOK)
    /\ UNCHANGED <<running, cmd, restartCount, sinceRestart, stopRequested,
                   instLimit, ncmd, proc, signalled, wcmd, wsleep, waits,
                   handled, gaveUp>>

\* the subprocess binds its API port
ProcBind(i) ==
    /\ UNCHANGED nonSup
    /\ proc[i] = "starting"
    /\ ~PortInUse
    /\ proc' = [proc EXCEPT ![i] = "listening"]
    /\ ret' = NoRet
    /\ UNCHANGED <<running, cmd, restartCount, sinceRestart, stopRequested, mu,
                   lop, lpc, ltimer, instLimit, ncmd, signalled, wpc,
                   wcmd, wsleep,  waits, handled, attempts,
                   gaveUp>>

\* the subprocess exits: a crash, or the effect of a signal
ProcExit(i) ==
    /\ UNCHANGED nonSup
    /\ Alive(i)
    /\ proc' = [proc EXCEPT ![i] = "exited"]
    /\ ret' = NoRet
    /\ UNCHANGED <<running, cmd, restartCount, sinceRestart, stopRequested, mu,
                   lop, lpc, ltimer, instLimit, ncmd, signalled, wpc,
                   wcmd, wsleep,  waits, handled, attempts,
                   gaveUp>>

\* how far the timer of a blocked lock holder is told apart
TimerCap ==
    CASE lpc = "stop_wait" -> TermWait
      [] lpc = "stop_kill" -> KillWait
      [] lpc = "port_wait" -> maxPortWaitTime + 1
      [] OTHER -> 0

\* the lock holder is not blocked: it goes on before a second passes
HolderRuns ==
    \/ lpc = "port_wait" /\ (~PortInUse \/ ltimer > maxPortWaitTime)
    \/ lpc \in {"stop_wait", "stop_kill"} /\ Waited(cmd)
    \/ lpc = "stop_wait" /\ ltimer >= TermWait
    \/ lpc = "stop_kill" /\ ltimer >= KillWait

\* a monitor goroutine is not blocked: it goes on before a second passes
WatcherRuns(w) ==
    \/ wpc[w] = "init"
    \/ mu = Free /\ wpc[w] = "wait" /\ Waited(wcmd[w])
    \/ mu = Free /\ wpc[w] = "sleep" /\ wsleep[w] = 0

\* one second passes
Tick ==
    /\ UNCHANGED nonSup
    /\ ~HolderRuns
    /\ \A w \in Ids : ~WatcherRuns(w)
    /\ sinceRestart' = Min(sinceRestart + 1, RestartWindow)
    /\ ltimer' = Min(ltimer + 1, TimerCap)
    /\ wsleep' = [w \in DOMAIN wsleep |->
                    IF wsleep[w] > 0 THEN wsleep[w] - 1 ELSE 0]
    /\ ret' = NoRet
    /\ UNCHANGED <<running, cmd, restartCount, stopRequested, mu, lop, lpc,
                   instLimit, ncmd, proc, signalled, wpc, wcmd, 
                   waits, handled, attempts, gaveUp>>

\* NewManager (process.go:36-41): nothing runs, lastRestartAt is the zero time
InitSup(limit) ==
    /\ running = FALSE
    /\ cmd = NoCmd
    /\ restartCount = 0
    /\ sinceRestart = RestartWindow
    /\ stopRequested = FALSE
    /\ mu = Free
    /\ lop = "none"
    /\ lpc = "none"
    /\ ltimer = 0
    /\ instLimit = limit
    /\ ncmd = 0
    /\ proc = [i \in 1..limit |-> "none"]
    /\ signalled = {}
    /\ wpc = [i \in 1..limit |-> "none"]
    /\ wcmd = [i \in 1..limit |-> NoCmd]
    /\ wsleep = [i \in 1..limit |-> 0]
    /\ ret = NoRet
    /\ waits = <<>>
    /\ handled = 0
    /\ attempts = 0
    /\ gaveUp = FALSE

Init ==
    /\ InitSup(MaxInst)
    /\ InitQuotaIdle
    /\ InitGenIdle
    /\ InitAgentIdle
    /\ InitIoIdle
    /\ InitMainIdle

Next ==
    \/ \E c, b \in BOOLEAN : Start(c, b)
    \/ Stop
    \/ \E c, b \in BOOLEAN : Reload(c, b)
    \/ \E e \in BOOLEAN : PortFree(e)
    \/ PortTimeout
    \/ \E c, b \in BOOLEAN : StopExited(c, b)
    \/ StopTermTimeout
    \/ \E c, b \in BOOLEAN : StopKillTimeout(c, b)
    \/ \E w \in Ids : WatchRead(w)
    \/ \E w \in Ids : WatchExit(w)
    \/ \E w \in Ids, c, b \in BOOLEAN : WatchWake(w, c, b)
    \/ \E i \in Ids : ProcBind(i)
    \/ \E i \in Ids : ProcExit(i)
    \/ Tick

\* the supervisor under arbitrary callers, crashes and timing
Spec == Init /\ [][Next]_vars

\* an IsRunning that reads m.running without the lock
IsRunningUnlocked ==
    /\ UNCHANGED nonSup
    /\ ret' = [by |-> Api, op |-> "IsRunning",
               err |-> IF running THEN "true" ELSE "false"]
    /\ UNCHANGED <<running, cmd, restartCount, sinceRestart, stopRequested, mu,
                   lop, lpc, ltimer, instLimit, ncmd, proc, signalled, wpc,
                   wcmd, wsleep, waits, handled, attempts, gaveUp>>

\* IsRunning (process.go:195-199): the status query, answered with the lock
IsRunning ==
    /\ UNCHANGED nonSup
    /\ mu = Free
    /\ ret' = [by |-> Api, op |-> "IsRunning",
               err |-> IF running THEN "true" ELSE "false"]
    /\ UNCHANGED <<running, cmd, restartCount, sinceRestart, stopRequested, mu,
                   lop, lpc, ltimer, instLimit, ncmd, proc, signalled, wpc,
                   wcmd, wsleep, waits, handled, attempts, gaveUp>>

NextStatus ==
    \/ Next
    \/ IsRunning

\* the supervisor under arbitrary callers, status queries among them
SpecStatus == Init /\ [][NextStatus]_vars

(***************************************************************************)
(* A subprocess that crashes on every start: the agent starts it once      *)
(* (main.go:207), nobody calls Stop or Reload, and every instance exits    *)
(* before a second has passed since it was spawned.                        *)
(***************************************************************************)
InitCrash ==
    /\ InitSup(MaxCrashInst)
    /\ InitQuotaIdle
    /\ InitGenIdle
    /\ InitAgentIdle
    /\ InitIoIdle
    /\ InitMainIdle

NextCrash ==
    \/ \E c, b \in BOOLEAN : ncmd = 0 /\ Start(c, b)
    \/ \E e \in BOOLEAN : PortFree(e)
    \/ \E w \in Ids : WatchRead(w)
    \/ \E w \in Ids : WatchExit(w)
    \/ \E w \in Ids, c, b \in BOOLEAN : WatchWake(w, c, b)
    \/ \E i \in Ids : ProcBind(i)
    \/ \E i \in Ids : ProcExit(i)
    \/ (\A i \in Ids : ~Alive(i)) /\ Tick

SpecCrash == InitCrash /\ [][NextCrash]_vars

(***************************************************************************)
(* The quota monitor under CheckUser calls, periodic sweeps and the clock, *)
(* seeded by one UpdateUsers (main.go:685)                                 *)
(***************************************************************************)
\* the user lists the monitor is seeded with
QuotaUserA ==
    {User("A", <<"vless">>, "pw", en, lim, usd, ex, "") :
        en \in BOOLEAN, lim \in {0, 3, MaxInt}, usd \in {0, 2, MaxInt - 1},
        ex \in {NoExpire, ExpireAt(0)}}

QuotaUserB ==
    {User("B", <<"vless">>, "pw", TRUE, lim, 0, ExpireAt(1), "") :
        lim \in {0, 1}}

QuotaLists ==
    {<<a>> : a \in QuotaUserA} \cup
    {<<a, b>> : a \in QuotaUserA, b \in QuotaUserB}

InitQuota ==
    /\ InitSup(MaxInst)
    /\ InitIoIdle
    /\ InitMainIdle
    /\ \E list \in QuotaLists : users = UpdateUsers(NoUsers, list)
    /\ now = 0
    /\ removed = [id \in UUIDs |-> <<>>]
    /\ acc = [id \in UUIDs |-> 0]
    /\ swept = {}
    /\ qret = NoCheck
    /\ NoUpdate
    /\ InitGenIdle
    /\ InitAgentIdle

NextQuota ==
    \/ \E uuid \in {"A", "B"}, n \in 0..MaxBytes : CheckUser(uuid, n)
    \/ CheckAllUsers
    \/ ClockTick

SpecQuota == InitQuota /\ [][NextQuota]_vars

(***************************************************************************)
(* The Quota Monitor under concurrent callers of all its operations; an    *)
(* UpdateUsers call advances entry by entry while it holds m.mu            *)
(***************************************************************************)
MonUserA ==
    {User("A", <<"vless">>, "pw", en, lim, 0, ex, "") :
        en \in BOOLEAN, lim \in {0, 3}, ex \in {NoExpire, ExpireAt(0)}}

MonUserB == User("B", <<"vless">>, "pw", TRUE, 0, 0, NoExpire, "")

MonLists ==
    {<<>>} \cup {<<a>> : a \in MonUserA} \cup {<<MonUserB, a>> : a \in MonUserA}

InitMonitor ==
    /\ InitSup(MaxInst)
    /\ InitIoIdle
    /\ InitMainIdle
    /\ InitQuotaIdle
    /\ InitGenIdle
    /\ InitAgentIdle

NextMonitor ==
    \/ \E list \in MonLists : UpdateBegin(list)
    \/ UpdateStep
    \/ UpdateEnd
    \/ \E uuid \in {"A", "B"} : acc[uuid] < MaxChecked /\ CheckUser(uuid, 1)
    \/ CheckAllUsers
    \/ GetAllSessionTraffic
    \/ ResetSessionTraffic
    \/ ClockTick

SpecMonitor == InitMonitor /\ [][NextMonitor]_vars

(***************************************************************************)
(* The Quota Monitor as the running agent calls it: the quota ticker of    *)
(* the main loop (main.go:344-345), the UpdateUsers calls of the syncs and *)
(* regenerations (main.go:407, 470, 685) and the reset after a stats       *)
(* report (main.go:753). The timers fire again and again, and a call that  *)
(* has begun goes on.                                                      *)
(***************************************************************************)
InitLoop ==
    /\ InitSup(MaxInst)
    /\ InitIoIdle
    /\ InitMainIdle
    /\ \E list \in QuotaLists : users = UpdateUsers(NoUsers, list)
    /\ now = 0
    /\ removed = [id \in UUIDs |-> <<>>]
    /\ acc = [id \in UUIDs |-> 0]
    /\ swept = {}
    /\ qret = NoCheck
    /\ NoUpdate
    /\ InitGenIdle
    /\ InitAgentIdle

NextLoop ==
    \/ CheckAllUsers
    \/ \E list \in QuotaLists : UpdateBegin(list)
    \/ UpdateStep
    \/ UpdateEnd
    \/ ResetSessionTraffic
    \/ ClockTick

SpecLoop ==
    /\ InitLoop
    /\ [][NextLoop]_vars
    /\ WF_vars(CheckAllUsers)
    /\ WF_vars(UpdateStep)
    /\ WF_vars(UpdateEnd)
    /\ WF_vars(ResetSessionTraffic)
    /\ WF_vars(ClockTick)

(***************************************************************************)
(* One call of a generator on an arbitrary user list                       *)
(***************************************************************************)
GenUsers ==
    {User(id, protocols, "pw", en, 0, 0, NoExpire, "") :
        id \in {"A", "B"}, en \in BOOLEAN,
        protocols \in {<<>>, <<"vless">>, <<"vless", "shadowsocks">>,
                       <<"trojan", "tuic">>, <<"wireguard">>}}

GenLists == UNION {[1..n -> GenUsers] : n \in 0..MaxGenUsers}

GenNodes ==
    {BasicNode("sni")} \cup
    {NodeConfig("sni", {"vless", "shadowsocks", "vmess", "trojan",
                        "hysteria2", "tuic"},
                {"vmess", "trojan", "hysteria2", "tuic"}, hasTLSCert) :
        hasTLSCert \in BOOLEAN}

InitGen ==
    /\ InitSup(MaxInst)
    /\ InitIoIdle
    /\ InitMainIdle
    /\ InitQuotaIdle
    /\ \E list \in GenLists, cb \in BOOLEAN, node \in GenNodes :
          gin = GenArgs(list, cb, node)
    /\ gout = NoConfig
    /\ InitAgentIdle

\* gen.Generate(users, sni, circuitBreakerEnabled)
CallGenerate ==
    /\ gin.kind = "none"
    /\ gin' = [gin EXCEPT !.kind = "standard"]
    /\ gout' = Generate(gin.list, gin.node.realitySNI, gin.cb)
    /\ UNCHANGED <<supVars, quotaVars, agentVars, ioVars, mainVars>>

\* ctx.Generator.Generate(users, circuitBreakerEnabled)
CallMultiGenerate ==
    /\ gin.kind = "none"
    /\ gin' = [gin EXCEPT !.kind = "multi"]
    /\ gout' = MultiGenerate(gin.list, gin.cb, gin.node)
    /\ UNCHANGED <<supVars, quotaVars, agentVars, ioVars, mainVars>>

NextGen == CallGenerate \/ CallMultiGenerate

SpecGen == InitGen /\ [][NextGen]_vars

(***************************************************************************)
(* The agent from its start: initialisation of the mode, the syncs of the  *)
(* main loop, the mutations of the Local Store through the local API and   *)
(* the regeneration callbacks they start                                   *)
(***************************************************************************)
RemoteA == User("A", <<"vless">>, "remote", TRUE, 0, 0, NoExpire, "dev")

\* what the remote manager may answer to FetchUsers
Responses ==
    {Response("v1", <<RemoteA>>, "sni1"), Response("v2", <<>>, "sni2")}

LocalA == LocalUser("A", <<"vless", "shadowsocks">>, TRUE)

LocalB == LocalUser("B", <<"vless">>, TRUE)

\* what local_users.json may hold when the agent starts
StoreContents ==
    {NoUsers, [id \in {"A", "B"} |-> IF id = "A" THEN LocalA ELSE LocalB]}

\* the multi-protocol context of a node with TLS ports and a certificate
MultiContext ==
    [on |-> TRUE,
     node |-> NodeConfig("sni0", {"vless", "shadowsocks", "vmess", "trojan",
                                  "hysteria2", "tuic"},
                         {"vmess", "trojan", "hysteria2", "tuic"}, TRUE)]

InitAgent ==
    /\ InitSup(MaxInst)
    /\ InitIoIdle
    /\ InitMainIdle
    /\ InitQuotaIdle
    /\ InitGenIdle
    /\ mode \in {"local", "remote", "hybrid"}
    /\ multiProto \in (IF mode = "remote" THEN {NoMulti, MultiContext}
                       ELSE {NoMulti})
    /\ cache \in (IF mode = "local" THEN {NoCache}
                  ELSE {NoCache,
                        [present |-> TRUE,
                         resp |-> Response("v1", <<RemoteA>>, "sni1")]})
    /\ storeUsers \in (IF mode = "remote" THEN {NoUsers} ELSE StoreContents)
    /\ circuitBreaker = FALSE
    /\ storeFile = Saved(storeUsers, FALSE)
    /\ mret = NoMutation
    /\ currentVersion = ""
    /\ configFile = NoConfig
    /\ apc = "boot"
    /\ aloc = NoALoc
    /\ rpc = [g \in 0..MaxCb |-> "idle"]
    /\ rloc = [g \in 0..MaxCb |-> NoLoc]
    /\ lastRemote = <<>>
    /\ bootFailed = FALSE
    /\ brkBefore = NoBefore
    /\ nmut = 0
    /\ nticks = 0

NextAgent ==
    \/ Run
    \/ SyncBegin
    \/ SyncFetchFail
    \/ \E resp \in Responses : SyncFetch(resp)
    \/ \E resp \in Responses : SyncFetchHybrid(resp)
    \/ SyncUpdate
    \/ \E ok \in BOOLEAN : SyncSave(ok)
    \/ SyncBreaker
    \/ \E ok \in BOOLEAN : SyncWrite(ok)
    \/ \E ok \in BOOLEAN : SyncReload(ok)
    \/ CacheLoad
    \/ \E ok \in BOOLEAN : CacheWrite(ok)
    \/ \E ok \in BOOLEAN : ManagerStart(ok)
    \/ \E g \in 0..MaxCb : RegenList(g)
    \/ \E g \in 0..MaxCb : RegenBreaker(g)
    \/ \E g \in 0..MaxCb : RegenUpdate(g)
    \/ \E g \in 0..MaxCb, ok \in BOOLEAN : RegenWrite(g, ok)
    \/ \E g \in 0..MaxCb, ok \in BOOLEAN : RegenReload(g, ok)
    \/ \E protocols \in {<<>>, <<"vless">>}, ok \in BOOLEAN :
          CreateUser("B", protocols, ok)
    \/ \E ok \in BOOLEAN : UpdateUser("A", FALSE, ok)
    \/ \E ok \in BOOLEAN : DeleteUser("A", ok)
    \/ \E en, ok \in BOOLEAN : SetCircuitBreaker(en, ok)

SpecAgent == InitAgent /\ [][NextAgent]_vars

(***************************************************************************)
(* Run and then the main loop, with the timers and the shutdown signal     *)
(***************************************************************************)
\* the answer of the remote manager to the FetchUsers of initRemoteMode and
\* initHybridMode
BootResponse == Response("v1", <<RemoteA>>, "sni1")

\* Run has initialised the mode without a failure (main.go:183-203): a
\* local-mode agent with an empty store has written the configuration of no
\* user, a remote-mode or hybrid-mode agent has applied BootResponse
Booted ==
    /\ mode \in {"local", "remote", "hybrid"}
    /\ multiProto = NoMulti
    /\ storeUsers = NoUsers
    /\ circuitBreaker = FALSE
    /\ storeFile = Saved(storeUsers, FALSE)
    /\ mret = NoMutation
    /\ IF mode = "local"
         THEN /\ cache = NoCache
              /\ currentVersion = ""
              /\ users = UpdateUsers(NoUsers, <<>>)
              /\ lastRemote = <<>>
              /\ configFile = Generate(<<>>, "www.microsoft.com", FALSE)
         ELSE /\ cache = [present |-> TRUE, resp |-> BootResponse]
              /\ currentVersion = BootResponse.version
              /\ users = UpdateUsers(NoUsers, BootResponse.users)
              /\ lastRemote = BootResponse.users
              /\ configFile = Generate(BootResponse.users, BootResponse.sni,
                                       FALSE)
    /\ apc = "start"
    /\ aloc = NoALoc
    /\ rpc = [g \in 0..MaxCb |-> "idle"]
    /\ rloc = [g \in 0..MaxCb |-> NoLoc]
    /\ bootFailed = FALSE
    /\ brkBefore = NoBefore
    /\ nmut = 0
    /\ nticks = 0

\* Run is about to start the subprocess and to enter the main loop
\* (main.go:206-213); no timer has fired and no signal has arrived
InitMain ==
    /\ InitSup(MaxInst)
    /\ InitIoIdle
    /\ InitGenIdle
    /\ Booted
    /\ now = 0
    /\ removed = [id \in UUIDs |-> <<>>]
    /\ acc = [id \in UUIDs |-> 0]
    /\ swept = {}
    /\ qret = NoCheck
    /\ NoUpdate
    /\ main = Selecting
    /\ due = {}
    /\ ctxDone = FALSE

\* the steps of the main goroutine in Run and inside a tick handler
HandlerStep ==
    \/ SyncFetchFail
    \/ \E resp \in Responses : SyncFetch(resp)
    \/ \E resp \in Responses : SyncFetchHybrid(resp)
    \/ SyncUpdate
    \/ \E ok \in BOOLEAN : SyncSave(ok)
    \/ SyncBreaker
    \/ \E ok \in BOOLEAN : SyncWrite(ok)
    \/ \E ok \in BOOLEAN : SyncReload(ok)
    \/ \E ok \in BOOLEAN : ManagerStart(ok)
    \/ CallFails
    \/ \E reported, certReloadOK, reloadUsers \in BOOLEAN :
          CallReturns(reported, certReloadOK, reloadUsers)
    \/ TaskReturn

\* the steps of the main goroutine after it has taken ctx.Done()
ShutdownStep ==
    \/ \E reported \in BOOLEAN : FinalReport(reported)
    \/ StopSubprocess
    \/ Return

NextMain ==
    \/ HandlerStep
    \/ ShutdownStep
    \/ \E t \in Timers : TimerFires(t)
    \/ Signal
    \/ Shutdown
    \/ TakeQuota
    \/ \E t \in CallTimers : TakeTick(t)
    \/ TakeSyncTick

\* the main goroutine is scheduled and the calls it makes return; a select
\* chooses at random among its ready cases, so that a case which is ready
\* again and again is taken
FairMain ==
    /\ WF_vars(HandlerStep \/ ShutdownStep)
    /\ SF_vars(Shutdown)
    /\ WF_vars(TakeQuota)
    /\ SF_vars(TakeSyncTick)
    /\ \A t \in CallTimers : SF_vars(TakeTick(t))

SpecMain == InitMain /\ [][NextMain]_vars /\ FairMain

(***************************************************************************)
(* Local mode with a disk that takes every write: the agent has written    *)
(* the configuration of the users it found in the store (main.go:254-259)  *)
(* and is about to start the subprocess; the local API changes the store   *)
(* and every change runs regenerateConfig in a goroutine of its own        *)
(***************************************************************************)
InitLocal ==
    /\ InitSup(MaxInst)
    /\ InitIoIdle
    /\ InitMainIdle
    /\ InitGenIdle
    /\ now = 0
    /\ removed = [id \in UUIDs |-> <<>>]
    /\ acc = [id \in UUIDs |-> 0]
    /\ swept = {}
    /\ qret = NoCheck
    /\ NoUpdate
    /\ mode = "local"
    /\ multiProto = NoMulti
    /\ cache = NoCache
    /\ storeUsers \in StoreContents
    /\ circuitBreaker = FALSE
    /\ storeFile = Saved(storeUsers, FALSE)
    /\ mret = NoMutation
    /\ currentVersion = ""
    /\ \E l \in ListUsers :
          LET list == [i \in 1..Len(l) |-> ToConfigUser(l[i])] IN
          /\ users = UpdateUsers(NoUsers, list)
          /\ configFile = Generate(list, "www.microsoft.com", FALSE)
    /\ apc = "start"
    /\ aloc = NoALoc
    /\ rpc = [g \in 0..MaxLocalCb |-> "idle"]
    /\ rloc = [g \in 0..MaxLocalCb |-> NoLoc]
    /\ lastRemote = <<>>
    /\ bootFailed = FALSE
    /\ brkBefore = NoBefore
    /\ nmut = 0
    /\ nticks = 0

NextLocal ==
    \/ \E ok \in BOOLEAN : ManagerStart(ok)
    \/ \E g \in Callbacks : RegenList(g)
    \/ \E g \in Callbacks : RegenBreaker(g)
    \/ \E g \in Callbacks : RegenUpdate(g)
    \/ \E g \in Callbacks : RegenWrite(g, TRUE)
    \/ \E g \in Callbacks, ok \in BOOLEAN : RegenReload(g, ok)
    \/ \E protocols \in {<<>>, <<"vless">>} : CreateUser("B", protocols, TRUE)
    \/ UpdateUser("A", FALSE, TRUE)
    \/ DeleteUser("A", TRUE)
    \/ \E en \in BOOLEAN : SetCircuitBreaker(en, TRUE)

SpecLocal == InitLocal /\ [][NextLocal]_vars

(***************************************************************************)
(* A flush cycle over the session counters of the monitor, as its          *)
(* operations are made for (monitor.go:120, 134): GetAllSessionTraffic,    *)
(* the report of the snapshot, and ResetSessionTraffic after a report that *)
(* went out (main.go:750-753), while CheckUser is called for the traffic   *)
(* that passes                                                             *)
(***************************************************************************)
\* the map GetAllSessionTraffic returns (monitor.go:124-130)
SessionTraffic ==
    [id \in {x \in DOMAIN users : users[x].session > 0} |-> users[id].session]

\* the cycle begins: GetAllSessionTraffic
CycleSnapshot ==
    /\ main = Selecting
    /\ Unlocked
    /\ main' = [main EXCEPT !.pc = "task", !.task = "stats",
                            !.stage = "report"]
    /\ report' = [NoReport EXCEPT !.stats = SessionTraffic]
    /\ qret' = [called |-> FALSE, traffic |-> SessionTraffic]
    /\ UNCHANGED <<supVars, genVars, agentVars, kick, spool, sclock, flush,
                   due, ctxDone, users, now, removed, acc, swept, updVars>>

\* the report of the snapshot goes out or fails; a failure ends the cycle
\* (main.go:750-752)
CycleReport(sendOK) ==
    /\ main.pc = "task"
    /\ main.stage = "report"
    /\ IF sendOK
         THEN /\ main' = [main EXCEPT !.stage = "reset"]
              /\ report' = [report EXCEPT !.n = 1, !.sent = DOMAIN report.stats]
         ELSE /\ main' = Selecting
              /\ report' = [report EXCEPT !.n = 1, !.err = TRUE]
    /\ UNCHANGED <<supVars, genVars, agentVars, kick, spool, sclock, flush,
                   due, ctxDone, quotaVars>>

\* the cycle ends: ResetSessionTraffic (main.go:753)
CycleReset ==
    /\ main.pc = "task"
    /\ main.stage = "reset"
    /\ Unlocked
    /\ users' = SessionsReset
    /\ qret' = NoCheck
    /\ main' = Selecting
    /\ UNCHANGED <<supVars, genVars, agentVars, ioVars, due, ctxDone, now,
                   removed, acc, swept, updVars>>

InitCycle ==
    /\ InitSup(MaxInst)
    /\ InitIoIdle
    /\ InitGenIdle
    /\ InitAgentIdle
    /\ \E list \in MonLists : users = UpdateUsers(NoUsers, list)
    /\ now = 0
    /\ removed = [id \in UUIDs |-> <<>>]
    /\ acc = [id \in UUIDs |-> 0]
    /\ swept = {}
    /\ qret = NoCheck
    /\ NoUpdate
    /\ main = Selecting
    /\ due = {}
    /\ ctxDone = FALSE

NextCycle ==
    \/ \E uuid \in {"A", "B"} : acc[uuid] < MaxChecked /\ CheckUser(uuid, 1)
    \/ CycleSnapshot
    \/ \E ok \in BOOLEAN : CycleReport(ok)
    \/ CycleReset

SpecCycle == InitCycle /\ [][NextCycle]_vars

(***************************************************************************)
(* Claims                                                                  *)
(***************************************************************************)

\* C1: in every reachable state at most one subprocess instance started by
\* the supervisor is alive.
C1_AtMostOneAlive == Cardinality({i \in Ids : Alive(i)}) <= 1

\* a watcher is about to make, or is making, an automatic restart attempt
RestartPending == \E w \in Ids : wpc[w] = "sleep" \/ mu = w

\* C2: six crashes in a row, each inside the 10-second window: the waits
\* chosen are non-decreasing and at most 32 s, and once the sixth crash has
\* been handled exactly five restart attempts were made and no further one
\* is made or pending.
C2_FiveAttemptsThenGiveUp ==
    /\ \A k \in 1..Len(waits) :
          /\ waits[k] <= MaxBackoff
          /\ k > 1 => waits[k - 1] <= waits[k]
    /\ handled >= 6 => attempts = 5 /\ gaveUp /\ ~RestartPending

\* C3: a CheckUser call for a user of the working set that has no expiry
\* returns not-allowed exactly when the ceiling is positive and the
\* server-used amount plus all session bytes passed so far, those of this
\* call included, reach the ceiling; with ceiling 0 it returns allowed.
C3_DeniedExactlyAtCeiling ==
    (qret.called /\ qret.known /\ ~qret.expires) =>
        (qret.allowed <=> ~(qret.limit > 0 /\ qret.total >= qret.limit))

\* the same within the range of the integer type: no sum passes MaxInt
C3_WithoutOverflow ==
    (qret.called /\ qret.known /\ ~qret.expires /\ qret.total <= MaxInt) =>
        (qret.allowed <=> ~(qret.limit > 0 /\ qret.total >= qret.limit))

\* C4: a user that CheckUser or CheckAllUsers met in the working set after
\* its expiry is out of the working set, and the eviction callback was
\* started exactly once for it, with reason expired, however many checks
\* of either kind followed.
C4_ExpiredEvictedOnce ==
    \A id \in swept :
        /\ id \notin DOMAIN users
        /\ removed[id] = <<"expired">>

\* an expired user was evicted and a later CheckUser met it gone
C4_Witness ==
    /\ qret.called /\ ~qret.known
    /\ qret.uuid \in swept
    /\ removed[qret.uuid] = <<"expired">>

\* the UUIDs of the enabled, not circuit-broken users of the call
EnabledSet ==
    {gin.list[i].uuid : i \in {j \in 1..Len(gin.list) :
                                  gin.list[j].enabled /\ ~gin.cb}}

\* C6 (as amended): the stats-export list of a generated configuration holds
\* exactly the users that are enabled and not circuit-broken, whatever
\* protocols they name, and every per-protocol list holds only such users.
C6_StatsAreEnabledUsers ==
    gin.kind # "none" =>
        /\ StatsSet(gout) = EnabledSet
        /\ CredentialSet(gout) \subseteq EnabledSet

\* C6 (as stated): the stats-export list holds exactly the users that are
\* enabled, not circuit-broken and name at least one protocol, and every
\* per-protocol list holds only enabled users.
C6_StatsAreUsersWithProtocol ==
    gin.kind # "none" =>
        /\ StatsSet(gout) =
              {gin.list[i].uuid : i \in {j \in 1..Len(gin.list) :
                  /\ gin.list[j].enabled /\ ~gin.cb
                  /\ gin.list[j].protocols # <<>>}}
        /\ CredentialSet(gout) \subseteq EnabledSet

\* a configuration generated from a list with an enabled user without
\* protocols and a disabled user with one, the breaker off
C6_Witness ==
    /\ gin.kind # "none" /\ ~gin.cb
    /\ \E i, j \in 1..Len(gin.list) :
          /\ gin.list[i].enabled /\ gin.list[i].protocols = <<>>
          /\ ~gin.list[j].enabled /\ gin.list[j].protocols # <<>>

\* C5: a sync that fetches the version token it applied last goes no further:
\* it writes no cache, generates no configuration and reloads nothing.
C5_UnchangedVersionIsNoOp ==
    apc \in {"save", "breaker", "write", "reload"} =>
        aloc.resp.version # aloc.applied

\* the same in remote mode only, where syncAndApply compares the versions
C5_RemoteMode == mode = "remote" => C5_UnchangedVersionIsNoOp

\* C7: a regeneration that finds the breaker enabled writes empty lists, a
\* change of the breaker leaves the stored users alone, and a regeneration
\* after the breaker is disabled again, with the same stored and remote
\* users, writes the lists the configuration had before the activation.
C7_BreakerEmptiesAndRestores ==
    [][/\ circuitBreaker' # circuitBreaker => storeUsers' = storeUsers
       /\ \A g \in 0..MaxCb :
             (rpc[g] = "write" /\ rpc'[g] = "reload") =>
                /\ rloc[g].cb => Lists(configFile') = NoLists
                /\ (/\ ~rloc[g].cb
                    /\ brkBefore.set
                    /\ brkBefore.store = storeUsers
                    /\ brkBefore.remote = lastRemote)
                      => Lists(configFile') = brkBefore.lists]_vars

\* the same in local mode only, where the stored users are all the users
C7_LocalMode ==
    [][mode = "local" =>
         \A g \in 0..MaxCb :
            (rpc[g] = "write" /\ rpc'[g] = "reload") =>
               /\ rloc[g].cb => Lists(configFile') = NoLists
               /\ (/\ ~rloc[g].cb
                   /\ brkBefore.set
                   /\ brkBefore.store = storeUsers)
                     => Lists(configFile') = brkBefore.lists]_vars

\* the UUIDs of a list of users
UUIDsOf(list) == {list[i].uuid : i \in 1..Len(list)}

\* C8: the list a hybrid sync hands on has one entry for each UUID of the
\* fetched list and of the Local Store; an entry whose UUID the store holds
\* is the local user, any other entry is the fetched one.
C8_HybridMergeLocalWins ==
    (mode = "hybrid" /\ apc \in {"update", "save", "breaker", "write"}) =>
        LET ids == UUIDsOf(aloc.resp.users) \cup {l.uuid : l \in aloc.store}
        IN /\ Len(aloc.list) = Cardinality(ids)
           /\ UUIDsOf(aloc.list) = ids
           /\ \A i \in 1..Len(aloc.list) :
                 IF \E l \in aloc.store : l.uuid = aloc.list[i].uuid
                   THEN \E l \in aloc.store : aloc.list[i] = ToConfigUser(l)
                   ELSE \E j \in 1..Len(aloc.resp.users) :
                           aloc.list[i] = aloc.resp.users[j]

\* remote user A, local users A and B: two entries, A with the local fields
C8_Witness ==
    /\ mode = "hybrid"
    /\ apc = "save"
    /\ aloc.resp.users = <<RemoteA>>
    /\ aloc.store = {LocalA, LocalB}
    /\ Len(aloc.list) = 2
    /\ \E i \in 1..2 : aloc.list[i] = ToConfigUser(LocalA)
    /\ DOMAIN users = {"A", "B"}

\* C9: in hybrid mode the list a regeneration after a Local Store mutation
\* hands to the Quota Monitor and the generator still holds every user of
\* the remote list that the Local Store does not override (no sync is in
\* progress: the remote list is the one the last sync handed on).
C9_MutationKeepsRemoteUsers ==
    \A g \in Callbacks :
       (mode = "hybrid" /\ apc = "loop" /\ rpc[g] \in {"update", "write"}) =>
           UUIDsOf(lastRemote) \subseteq UUIDsOf(rloc[g].list)

\* the effective list of the cached response: in hybrid mode its users under
\* the users of the Local Store
CachedList ==
    IF mode = "hybrid"
      THEN CHOOSE m \in Slices(MergeUsers(cache.resp.users,
                                          CHOOSE l \in ListUsers : TRUE)) :
              TRUE
      ELSE cache.resp.users

\* the configuration generated from the cached list and the cached settings
CachedConfig ==
    IF mode = "hybrid"
      THEN Generate(CachedList, cache.resp.sni, circuitBreaker)
      ELSE RemoteConfig(cache.resp)

\* C10: when the fetch at startup has failed and a cache is present, the
\* configuration file at the start of the subprocess has the settings and
\* the lists of the configuration generated from the cache, and the Quota
\* Monitor knows exactly the users of the cached list.
C10_StartupFromCache ==
    (apc = "start" /\ bootFailed /\ cache.present /\ nmut = 0) =>
        /\ configFile # NoConfig =>
              /\ configFile.sni = CachedConfig.sni
              /\ Lists(configFile) = Lists(CachedConfig)
        /\ DOMAIN users = UUIDsOf(CachedList)

\* the same in remote mode only, where the start falls back to the cache
C10_RemoteMode ==
    (mode = "remote" /\ apc = "start" /\ bootFailed /\ cache.present) =>
        /\ configFile \in {NoConfig, RemoteConfig(cache.resp)}
        /\ DOMAIN users = UUIDsOf(cache.resp.users)

\* C11: a subprocess is spawned only in a step that finds no instance
\* listening on the control port, and a start that gives up on the port does
\* so only after the wait timeout, spawns nothing and leaves m.running false.
C11_SpawnOnlyOnFreePort ==
    [][/\ ncmd' # ncmd => ~(\E i \in Ids : proc[i] = "listening")
       /\ ret'.err = "port_timeout" =>
             /\ ltimer > maxPortWaitTime
             /\ ncmd' = ncmd
             /\ proc' = proc
             /\ ~running']_vars

\* Start has waited for an occupied port and has given up
C11_Witness ==
    /\ ret.op = "Start"
    /\ ret.err = "port_timeout"
    /\ \E i \in Ids : proc[i] = "listening"
    /\ ~running

\* C12: when monitor() handles the exit of an instance that stopLocked has
\* signalled, it ends without a change of the crash counter or of the time
\* of the last restart, and without a restart.
C12_StopIsNoCrash ==
    [][\A w \in Ids :
          (wpc[w] = "wait" /\ wpc'[w] # "wait" /\ wcmd[w] \in signalled) =>
             /\ wpc'[w] = "done"
             /\ restartCount' = restartCount
             /\ sinceRestart' = sinceRestart
             /\ handled' = handled
             /\ waits' = waits
             /\ ncmd' = ncmd]_vars

\* the watcher of a stopped instance has seen its exit and has ended
C12_Witness ==
    \E w \in Ids :
       /\ wpc[w] = "done"
       /\ wcmd[w] = w
       /\ w \in signalled
       /\ proc[w] = "exited"
       /\ handled = 0
       /\ ret.op = "none"

\* C13: a watcher whose restart attempt has failed below the attempt cap has
\* not ended: it is still there to retry after the next backoff.
C13_FailedRestartIsRetried ==
    (/\ ret.op = "Restart"
     /\ ret.err \in {"no_config", "no_binary", "port_timeout", "exec_failed"}
     /\ restartCount < maxRestartAttempts
     /\ ~stopRequested)
       => wpc[ret.by] # "done"

\* C15: the map an UpdateUsers call installs holds exactly the enabled users
\* of its list, with the limits of the list; a UUID of the previous map
\* keeps its session counter, any other starts at zero.
C15_UpdateUsersCarriesSessions ==
    [][(qmu /\ ~qmu') =>
          LET en == {i \in 1..Len(ulist) : ulist[i].enabled} IN
          /\ DOMAIN users' = {ulist[i].uuid : i \in en}
          /\ \A id \in DOMAIN users' :
                /\ users'[id].session =
                      IF id \in DOMAIN users THEN users[id].session ELSE 0
                /\ \E i \in en :
                      /\ ulist[i].uuid = id
                      /\ users'[id].limit = ulist[i].limit
                      /\ users'[id].used = ulist[i].used
                      /\ users'[id].expire = ulist[i].expire]_vars

\* the second UpdateUsers call has kept the counter of B and has brought A,
\* removed as expired after its bytes were counted, back with a counter of
\* zero
C15_Witness ==
    /\ qret = UpdateDone
    /\ nupd = 2
    /\ DOMAIN users = {"A", "B"}
    /\ users["B"].session > 0
    /\ users["A"].session = 0
    /\ acc["A"] > 0
    /\ removed["A"] = <<"expired">>

\* C16: while an UpdateUsers call holds m.mu no other operation reads or
\* changes the working set, and the map it installs is the one computed
\* from the working set it found: every operation sees the set of before
\* the update or the set of after it.
C16_UpdateIsAtomic ==
    [][qmu =>
          IF qmu'
            THEN /\ users' = users
                 /\ removed' = removed
                 /\ acc' = acc
                 /\ qret' = NoCheck
                 /\ nupd' = nupd
            ELSE users' = UpdateUsers(users, ulist)]_vars

\* an UpdateUsers call is half way through a list of two users while the
\* working set holds counted bytes
C16_Witness ==
    /\ qmu
    /\ Len(ulist) = 2
    /\ upos = 1
    /\ DOMAIN newUsers = {"B"}
    /\ \E id \in DOMAIN users : users[id].session > 0

\* an enabled user of the working set with a ceiling that its used traffic
\* has reached
OverQuota(id) ==
    /\ id \in DOMAIN users
    /\ users[id].limit > 0
    /\ users[id].used >= users[id].limit

\* C14: in the running agent a user of the working set whose used traffic
\* has reached its ceiling is eventually evicted with reason quota_exceeded
\* (or leaves the working set for another reason).
C14_OverQuotaIsEvicted ==
    \A id \in {"A", "B"} :
       OverQuota(id) ~>
          (id \notin DOMAIN users \/
           \E k \in 1..Len(removed[id]) : removed[id][k] = "quota_exceeded")

\* the entries of the argument list have different UUIDs
UniqueUUIDs(list) ==
    \A i, j \in 1..Len(list) : list[i].uuid = list[j].uuid => i = j

\* C17: in a configuration generated from a list with unique UUIDs every
\* UUID of a per-protocol user list is in the stats-export list, and every
\* enabled user, the breaker off, is in the stats-export list exactly once.
C17_CredentialsWithinStats ==
    (gin.kind # "none" /\ UniqueUUIDs(gin.list)) =>
        /\ CredentialSet(gout) \subseteq StatsSet(gout)
        /\ \A i \in 1..Len(gin.list) :
              (gin.list[i].enabled /\ ~gin.cb) =>
                 Cardinality({k \in 1..Len(gout.stats) :
                                 gout.stats[k] = gin.list[i].uuid}) = 1

\* the multi-protocol generator has made lists for two enabled users, one
\* of them without protocols
C17_Witness ==
    /\ gin.kind = "multi"
    /\ ~gin.cb
    /\ Len(gin.list) = 2
    /\ UniqueUUIDs(gin.list)
    /\ gin.list[1].enabled /\ gin.list[1].protocols = <<"trojan", "tuic">>
    /\ gin.list[2].enabled /\ gin.list[2].protocols = <<>>
    /\ CredentialSet(gout) # {}
    /\ Len(gout.stats) = 2

\* the protocols a generator call is configured to serve: the two of the
\* standard generator; for the multi-protocol generator those of the node,
\* a TLS protocol only with its port and the certificate
ConfiguredProtocols ==
    IF gin.kind = "standard" THEN {"vless", "shadowsocks"}
    ELSE {proto \in gin.node.protocols :
             \/ proto \in {"vless", "shadowsocks"}
             \/ proto \in gin.node.tls /\ gin.node.hasTLSCert}

\* C18: a generated configuration has exactly one inbound block for each
\* configured protocol, whatever the users.
C18_InboundPerProtocol ==
    gin.kind # "none" =>
        \A proto \in ConfiguredProtocols :
           Cardinality({k \in 1..Len(gout.inbounds) :
                           gout.inbounds[k].type = proto}) = 1

\* the same for the standard generator only
C18_StandardGenerator == gin.kind = "standard" => C18_InboundPerProtocol

\* ------------------------------------------------------------------
\* KickUser on its own: calls for either user over every listing.
InitKick ==
    /\ InitSup(MaxInst)
    /\ InitIoIdle
    /\ InitMainIdle
    /\ InitQuotaIdle
    /\ InitGenIdle
    /\ InitAgentIdle

NextKick ==
    \/ \E u \in KickUsers, listOK \in BOOLEAN, l \in ConnLists :
          KickUserCall(u, listOK, l)
    \/ \E ok \in BOOLEAN : KickStep(ok)
    \/ KickReturn

SpecKick == InitKick /\ [][NextKick]_vars

\* the ids of the listed sessions tagged with the user, in list order
RECURSIVE TaggedIds(_, _)
TaggedIds(conns, u) ==
    IF conns = <<>> THEN <<>>
    ELSE IF Head(conns).user = u
    THEN <<Head(conns).id>> \o TaggedIds(Tail(conns), u)
    ELSE TaggedIds(Tail(conns), u)

\* C19: when KickUser has returned: if the listing failed it returned
\* (0, error) and attempted no termination; otherwise it attempted the
\* termination of exactly the listed sessions tagged with the uuid, each
\* once and whatever the outcome of the earlier ones, and returned the
\* number of terminations that succeeded, with no error.
C19_KickUserContract ==
    kick.pc = "done" =>
        IF ~kick.listed
        THEN kick.ret = [n |-> 0, err |-> TRUE] /\ kick.tried = <<>>
        ELSE /\ [k \in DOMAIN kick.tried |-> kick.tried[k].id]
                    = TaggedIds(kick.conns, kick.uuid)
             /\ kick.ret.n
                    = Cardinality({k \in DOMAIN kick.tried : kick.tried[k].ok})
             /\ ~kick.ret.err

\* a call that went past a failed termination: three sessions, the first
\* and the last of user A, the first DELETE failed, the last succeeded
C19_Witness ==
    /\ kick.pc = "done"
    /\ kick.listed
    /\ kick.uuid = "A"
    /\ Len(kick.conns) = 3
    /\ kick.conns[2].user = "B"
    /\ kick.tried = <<[id |-> 1, ok |-> FALSE], [id |-> 3, ok |-> TRUE]>>
    /\ kick.ret = [n |-> 1, err |-> FALSE]

\* ------------------------------------------------------------------
\* the reporter's spool on its own: batches that could not be sent are
\* spooled, and flushes replay them against a server that may fail.
InitSpool ==
    /\ InitSup(MaxInst)
    /\ InitIoIdle
    /\ InitMainIdle
    /\ InitQuotaIdle
    /\ InitGenIdle
    /\ InitAgentIdle

NextSpool ==
    \/ \E intact \in BOOLEAN : SaveToCache(intact)
    \/ FlushBegin
    \/ \E readOK, sendOK \in BOOLEAN : FlushStep(readOK, sendOK)
    \/ FlushReturn

SpecSpool == InitSpool /\ [][NextSpool]_vars

\* C20: in a flush, the files are taken in the order they were spooled,
\* one after the other; a file that has left the spool was either sent
\* successfully or corrupt; a corrupt file has left the spool and the
\* flush went on after it; the flush stops exactly at the first send
\* that fails, and that file and every later one are still in the spool.
C20_FlushReplaysInOrder ==
    LET files == flush.files
        log == flush.log
    IN
    /\ \A i, j \in DOMAIN files : i < j => files[i] < files[j]
    /\ Len(log) <= Len(files)
    /\ \A k \in DOMAIN log : log[k].file = files[k]
    /\ \A k \in DOMAIN files :
          files[k] \notin DOMAIN spool =>
              k \in DOMAIN log /\ log[k].what \in {"sent", "corrupt"}
    /\ \A k \in DOMAIN log :
          log[k].what = "corrupt" =>
              /\ files[k] \notin DOMAIN spool
              /\ (flush.pc = "done" /\ k = Len(log) => flush.ret = "ok")
    /\ \A k \in DOMAIN log :
          log[k].what = "failed" =>
              /\ k = Len(log)
              /\ flush.pc = "done" /\ flush.ret = "error"
              /\ \A j \in k..Len(files) : files[j] \in DOMAIN spool
    /\ (flush.ret = "error" => log # <<>> /\ log[Len(log)].what = "failed")
    /\ (flush.pc = "done" /\ flush.ret = "ok" => Len(log) = Len(files))

\* a flush over four files that dropped a corrupt file, sent the next
\* batch, failed on the third and left the third and the fourth spooled
C20_Witness ==
    /\ flush.pc = "done"
    /\ flush.ret = "error"
    /\ Len(flush.files) = 4
    /\ [k \in DOMAIN flush.log |-> flush.log[k].what]
           = <<"corrupt", "sent", "failed">>
    /\ DOMAIN spool = {flush.files[3], flush.files[4]}

\* the fields of the Manager and the processes and watchers it owns
managerState ==
    <<running, cmd, restartCount, stopRequested, ncmd, proc, signalled, wpc,
      wcmd>>

\* C27: a Start that finds the supervisor running returns an error, and a
\* Start that returns "already running", "config file not found" or
\* "binary not found" has spawned no process, started no watcher and left
\* the running flag, the process handle, the crash counter and the
\* explicit-stop flag as they were.
C27_RefusedStartChangesNothing ==
    [][/\ (mu = Free /\ running /\ (lop' = "Start" \/ ret'.op = "Start"))
            => ret' = [by |-> Api, op |-> "Start", err |-> "already_running"]
       /\ (ret'.op = "Start"
            /\ ret'.err \in {"already_running", "no_config", "no_binary"})
            => UNCHANGED managerState]_vars

\* a Start refused on a supervisor that runs a restarted instance, with a
\* crash counted and a watcher waiting
C27_Witness ==
    /\ ret = [by |-> Api, op |-> "Start", err |-> "already_running"]
    /\ running
    /\ restartCount > 0
    /\ cmd # NoCmd /\ Alive(cmd)
    /\ wpc[cmd] = "wait"

\* C28: a Reload that finds the supervisor not running returns an error
\* and changes nothing: no process is spawned or signalled, and the flags,
\* the handle and the crash counter stay as they were.
C28_ReloadRefusedWhenNotRunning ==
    [][(mu = Free /\ ~running /\ (lop' = "Reload" \/ ret'.op = "Reload"))
          => /\ ret' = [by |-> Api, op |-> "Reload", err |-> "not_running"]
             /\ UNCHANGED managerState]_vars

\* a Reload refused on a supervisor stopped after a crash was counted
C28_Witness ==
    /\ ret = [by |-> Api, op |-> "Reload", err |-> "not_running"]
    /\ ~running
    /\ stopRequested
    /\ cmd = NoCmd
    /\ restartCount > 0

\* C29: a Stop that finds the supervisor not running returns success at
\* once, signals no process and changes nothing, and a Stop that has
\* returned leaves the supervisor not running, so that a Stop that follows
\* a Stop changes nothing.
C29_StopIsIdempotent ==
    [][/\ (mu = Free /\ ~running /\ (lop' = "Stop" \/ ret'.op = "Stop"))
            => /\ ret' = [by |-> Api, op |-> "Stop", err |-> "ok"]
               /\ UNCHANGED managerState
       /\ ret'.op = "Stop" => ret'.err = "ok" /\ ~running']_vars

\* a Stop that returned on a supervisor another Stop had stopped: the
\* instance was signalled once and the handle is gone
C29_Witness ==
    /\ ret = [by |-> Api, op |-> "Stop", err |-> "ok"]
    /\ ~running
    /\ stopRequested
    /\ cmd = NoCmd
    /\ ncmd = 1
    /\ signalled = {1}
    /\ proc[1] = "exited"
    /\ wpc[1] = "done"

\* C30: the crash counter goes back to zero only in a step of Reload; a
\* Reload that got past its test of the running flag returns with the
\* counter at zero, and an automatic restart that succeeded returns with
\* the counter above zero.
C30_OnlyReloadResetsCounter ==
    [][/\ (restartCount # 0 /\ restartCount' = 0)
            => lop = "Reload" \/ (mu = Free /\ ret'.op = "Reload")
                              \/ (mu = Free /\ lop' = "Reload")
       /\ (ret'.op = "Reload" /\ ret'.err # "not_running")
            => restartCount' = 0
       /\ (ret'.op = "Restart" /\ ret'.err = "ok") => restartCount' > 0]_vars

\* a Reload that returned success after a crash had been counted
C30_Witness ==
    /\ ret = [by |-> Api, op |-> "Reload", err |-> "ok"]
    /\ restartCount = 0
    /\ handled > 0
    /\ running

\* ------------------------------------------------------------------
\* Report against a collector and a disk that may fail, with flushes of
\* the spool in between (collectAndReport, main.go:737-760).
NextReport ==
    \/ \E stats \in StatsMaps, sendOK \in BOOLEAN,
          write \in {"ok", "none", "partial"} : Report(stats, sendOK, write)
    \/ FlushBegin
    \/ \E readOK, sendOK \in BOOLEAN : FlushStep(readOK, sendOK)
    \/ FlushReturn

SpecReport == InitSpool /\ [][NextReport]_vars

\* the step is a call of Report
ReportCalled == report'.n # report.n

\* the step added exactly one file to the spool, holding the batch, and
\* touched no other file
SpooledOneFile ==
    /\ \E f \in DOMAIN spool' \ DOMAIN spool :
          /\ DOMAIN spool' = DOMAIN spool \cup {f}
          /\ spool'[f] = "batch"
    /\ \A f \in DOMAIN spool : spool'[f] = spool[f]

\* the step left no batch in the spool that was not there: at most a file
\* that does not parse
SpooledNoBatch ==
    /\ \A f \in DOMAIN spool' \ DOMAIN spool : spool'[f] = "corrupt"
    /\ \A f \in DOMAIN spool : f \in DOMAIN spool' /\ spool'[f] = spool[f]

\* C21 as stated: every call of Report with a non-empty batch either
\* delivers it or spools it as exactly one new file, never both, and
\* returns an error only if it did neither.
C21_EveryBatchDeliveredOrSpooled ==
    [][(ReportCalled /\ DOMAIN report'.stats # {}) =>
          /\ (report'.sent # {} /\ spool' = spool)
                \/ (report'.sent = {} /\ SpooledOneFile)
          /\ report'.err => report'.sent = {} /\ SpooledNoBatch]_vars

\* C21, amended: a call of Report with a batch that has an entry with
\* traffic does exactly one of three things: it delivers the entries with
\* traffic and leaves the spool alone; or the send failed and it spools
\* them as exactly one new file; or the send and the write failed and it
\* returns an error, the batch being in no file that parses.  It returns
\* an error in the third case only.  A batch without traffic is neither
\* sent nor spooled and returns no error.
C21_BatchWithTrafficDeliveredOrSpooled ==
    [][ReportCalled =>
          LET entries == StatsEntries(report'.stats) IN
          IF entries = {}
          THEN report'.sent = {} /\ spool' = spool /\ ~report'.err
          ELSE \/ report'.sent = entries /\ spool' = spool /\ ~report'.err
               \/ report'.sent = {} /\ SpooledOneFile /\ ~report'.err
               \/ report'.sent = {} /\ SpooledNoBatch /\ report'.err]_vars

\* a batch of an idle and an active user whose send failed: the entry of
\* the active user is in one spool file, next to an older one
C21_Witness ==
    /\ report.n = 2
    /\ DOMAIN report.stats = {"A", "B"}
    /\ report.stats["A"] = UserStats(0, 0)
    /\ report.stats["B"] = UserStats(1, 0)
    /\ report.sent = {}
    /\ ~report.err
    /\ report.file \in DOMAIN spool
    /\ spool[report.file] = "batch"
    /\ Cardinality(DOMAIN spool) = 2

\* the main goroutine has written the configuration and not yet come to
\* its Reload
MainReloadPending == apc = "reload"

\* the goroutine g of a store callback has written the configuration and
\* not yet come to its Reload
CallbackReloadPending(g) == rpc[g] = "reload"

\* the step writes a regenerated configuration from the main goroutine
\* (syncAndApply, syncAndApplyHybrid, the regenerateConfig of the start)
MainWrites == (apc = "write" /\ apc' = "reload")
                  \/ (rpc[0] = "write" /\ rpc'[0] = "reload")

\* the step writes a regenerated configuration from the callback g
CallbackWrites(g) == rpc[g] = "write" /\ rpc'[g] = "reload"

\* C22: no configuration is written while another write still waits for
\* its Reload with the subprocess running: a write by the main goroutine
\* finds no callback between its write and its Reload, and a write by a
\* callback finds neither the main goroutine nor another callback there.
C22_ReloadBeforeNextWrite ==
    [][/\ MainWrites =>
            \A g \in Callbacks : ~(CallbackReloadPending(g) /\ running)
       /\ \A g \in Callbacks :
            CallbackWrites(g) =>
                /\ ~((MainReloadPending \/ rpc[0] = "reload") /\ running)
                /\ \A h \in Callbacks \ {g} :
                      ~(CallbackReloadPending(h) /\ running)]_vars

\* the callback goroutines the step has started
StartedCallbacks == {g \in Callbacks : rpc[g] = "idle" /\ rpc'[g] = "list"}

\* C26: a mutation of the store that returns no error has started exactly
\* one callback, and the file then holds the users and the breaker state
\* the mutation has left in memory; a mutation that returns an error has
\* started none.
C26_CallbackOncePerMutation ==
    [][nmut' # nmut =>
          IF mret'.err
          THEN rpc' = rpc
          ELSE /\ Cardinality(StartedCallbacks) = 1
               /\ \A g \in 0..MaxCb : g \notin StartedCallbacks
                                          => rpc'[g] = rpc[g]
               /\ storeFile' = Saved(storeUsers', circuitBreaker')]_vars

\* a breaker activation that was saved and whose callback has started,
\* after a user update that failed to save and started none
C26_Witness ==
    /\ nmut = 2
    /\ mret = Returned("SetCircuitBreaker", FALSE)
    /\ circuitBreaker
    /\ storeFile = Saved(storeUsers, TRUE)
    /\ "A" \in DOMAIN storeUsers /\ ~storeUsers["A"].enabled
    /\ rpc[1] = "list"

\* a tick handler of the main loop is blocked in a call or in a reload
HandlerBlocked == main.pc = "task"

\* C24: while the handler of one timer is blocked in a network call or in a
\* reload of the subprocess, a tick of the quota timer that is due can be
\* handled: the sweep does not wait for the blocked handler.
C24_BlockedTaskDoesNotDelayQuota ==
    (HandlerBlocked /\ "quota" \in due) => ENABLED TakeQuota

\* the main loop has taken ctx.Done() at its select
SignalObserved == main.pc \in {"final", "stopping", "returning", "exited"}

\* what the loop does from ctx.Done() to its return (main.go:336-342)
ShutdownSequence ==
    IF mode = "local" THEN <<"stop", "exit">>
    ELSE <<"report", "stop", "exit">>

\* C25: after the shutdown signal the main loop, once the handler in
\* progress has returned, makes the last collect-and-report in remote and
\* hybrid mode, then stops the subprocess, then returns, in this order; once
\* it has observed the signal it takes no tick of any timer.
C25_GracefulShutdown ==
    /\ ctxDone ~> (main.pc = "exited" /\ main.log = ShutdownSequence
                     /\ ~running)
    /\ [](SignalObserved =>
             \E k \in 0..Len(ShutdownSequence) :
                main.log = SubSeq(ShutdownSequence, 1, k))
    /\ [][SignalObserved =>
             /\ SignalObserved'
             /\ main'.task = "none"
             /\ due \subseteq due'
             /\ UNCHANGED <<users, removed, swept, apc>>]_vars

\* the loop has returned after a signal that arrived during a sync whose
\* handler went on to its end, in a mode that reports
C25_Witness ==
    /\ main.pc = "exited"
    /\ main.log = <<"report", "stop", "exit">>
    /\ mode = "hybrid"
    /\ currentVersion = "v2"
    /\ due # {}
    /\ ~running

\* the timers whose handlers call the remote manager or the subprocess
RemoteTimers == Timers \ {"quota"}

\* the fetch of a sync, or the call of a heartbeat, of a connection report
\* or of a stats collection, fails inside a tick handler
FetchFails == CallFails \/ (SyncFetchFail /\ main.pc = "task")

\* C23: a failed fetch of a periodic sync, heartbeat, connection report or
\* stats collection leaves the applied version, the working set of the
\* monitor, the cache file and the configuration file as they were and
\* returns to the loop, which goes on; a tick of the same timer that is due
\* when the loop is at its select makes the handler run again, unless the
\* shutdown signal arrives.
C23_FailedFetchIsRetried ==
    /\ [][FetchFails =>
             /\ UNCHANGED <<currentVersion, users, cache, configFile,
                            running>>
             /\ ~SignalObserved'
             /\ apc' = "loop"
             /\ main'.pc \in {"select", "task"}]_vars
    /\ \A t \in RemoteTimers :
          (AtSelect /\ t \in due /\ ~ctxDone)
             ~> ((main.pc = "task" /\ main.task = t) \/ ctxDone)

\* the call of the heartbeat failed, the heartbeat timer has fired again and
\* the handler runs again, with everything the first sync applied in place
C23_Witness ==
    /\ main.failed = "heartbeat"
    /\ main.pc = "task"
    /\ main.task = "heartbeat"
    /\ main.stage = "call"
    /\ currentVersion = "v1"
    /\ cache.present
    /\ ~ctxDone

\* watcher w begins its backoff sleep in this step
BeginsSleep(w) == wpc[w] # "sleep" /\ wpc'[w] = "sleep"

\* C31: when a watcher handles an unexpected exit the crash counter becomes
\* its old value plus one if the last restart timestamp is less than 10
\* seconds old and 1 otherwise, and the wait before the restart attempt is
\* the smaller of 2^counter and 32 seconds: one of 2, 4, 8, 16, 32.
C31_CounterAndBackoff ==
    [][handled' = handled + 1 =>
          /\ restartCount' = IF sinceRestart < 10 THEN restartCount + 1 ELSE 1
          /\ \A w \in Ids :
                BeginsSleep(w) =>
                   /\ wsleep'[w] = Min(2 ^ restartCount', 32)
                   /\ wsleep'[w] \in {2, 4, 8, 16, 32}
                   /\ waits' = Append(waits, wsleep'[w])
          /\ restartCount' <= 5 => \E w \in Ids : BeginsSleep(w)]_vars

\* four crashes in a row were counted 1 to 4 with waits of 2, 4, 8 and 16
\* seconds; the fifth came more than 10 seconds after the fourth, is counted
\* 1 and waits 2 seconds
C31_Witness ==
    /\ waits = <<2, 4, 8, 16, 2>>
    /\ restartCount = 1
    /\ handled = 5
    /\ \E w \in Ids : wpc[w] = "sleep" /\ wsleep[w] = 2

\* Stop has just returned while watcher w is in its backoff, the lock
\* released (process.go:261-263)
StopReturnedInBackoff(w) ==
    /\ ret = [by |-> Api, op |-> "Stop", err |-> "ok"]
    /\ wpc[w] = "sleep"

\* C32: when Stop has returned while the crash watcher sleeps in its backoff,
\* the watcher, once it has the lock again, makes no restart attempt: it
\* does not enter startLocked and the supervisor stays not running.
C32_StopCancelsPendingRestart ==
    [][\A w \in Ids : StopReturnedInBackoff(w) => mu' # w /\ ~running']_vars

\* the instance watcher w waits on has been superseded: m.cmd is the Cmd of
\* a later Start or Reload
Superseded(w) == wpc[w] = "wait" /\ cmd # NoCmd /\ cmd > wcmd[w]

InReload == mu = Api /\ lop = "Reload"

\* C34: Reload stops and starts under one hold of the lock: while it holds
\* it no Start, Stop, status query or restart attempt of a watcher returns
\* or begins, no watcher handles an exit or wakes from its backoff, and so
\* no status query answers with the stopped state between the two.
C34_ReloadIsOneStep ==
    [][InReload =>
          /\ ret'.op \in {"none", "Reload"}
          /\ mu' \in {Api, Free}
          /\ mu' = Api => lop' = "Reload"
          /\ \A w \in Ids : wpc[w] \in {"wait", "sleep"} => wpc'[w] = wpc[w]]_vars

\* a Reload has returned with the new instance running while the watcher of
\* the old one, whose exit it has seen, was kept waiting for the lock
C34_Witness ==
    /\ ret = [by |-> Api, op |-> "Reload", err |-> "ok"]
    /\ running
    /\ Alive(cmd)
    /\ \E w \in Ids : w # cmd /\ wpc[w] = "wait" /\ Waited(wcmd[w])

\* the user CheckUser is called for with n more bytes is in the working
\* set, is expired and reaches its ceiling
ExpiredAndOverQuota(uuid, n) ==
    /\ uuid \in DOMAIN users
    /\ users[uuid].expire.set
    /\ users[uuid].expire.at < now
    /\ users[uuid].limit > 0
    /\ users[uuid].used + users[uuid].session + n >= users[uuid].limit

\* C35: CheckUser tests the expiry before the quota: for a user that is
\* expired and at or above its ceiling one call removes the user, starts
\* one eviction callback, with reason expired, and returns not-allowed; for
\* a UUID that is not in the working set it returns not-allowed, starts no
\* callback and changes nothing.
C35_ExpiryBeforeQuota ==
    [][qret'.called =>
          LET uuid == qret'.uuid IN
          /\ ExpiredAndOverQuota(uuid, qret'.n) =>
                /\ uuid \notin DOMAIN users'
                /\ removed' = [removed EXCEPT ![uuid] = Append(@, "expired")]
                /\ ~qret'.allowed
          /\ uuid \notin DOMAIN users =>
                /\ ~qret'.allowed
                /\ UNCHANGED <<users, removed>>]_vars

\* CheckUser has refused a user that was past its expiry and over its
\* ceiling, and the one callback started for it has the reason expired
C35_Witness ==
    /\ qret.called
    /\ qret.known
    /\ ~qret.allowed
    /\ qret.expires
    /\ qret.limit > 0
    /\ qret.total >= qret.limit
    /\ qret.total <= MaxInt
    /\ removed[qret.uuid] = <<"expired">>
    /\ qret.uuid \notin DOMAIN users

\* C36: a remote-mode sync that has seen a changed version updates the
\* monitor, then saves the cache, then writes the configuration, then
\* reloads the subprocess if it runs, then records the new version: the
\* version is recorded at or after the reload step, and is not recorded when
\* the write of the configuration fails.
C36_VersionRecordedAfterReload ==
    [][mode = "remote" =>
          /\ (apc = "update" /\ apc' # apc) =>
                apc' = "save" /\ users' = UpdateUsers(users, aloc.list)
          /\ (apc = "save" /\ apc' # apc) => apc' = "write"
          /\ (apc = "write" /\ apc' # "reload") =>
                currentVersion' = currentVersion
          /\ currentVersion' # currentVersion => apc = "reload"]_vars

\* the store has been changed and every regeneration it started has ended
LocalQuiescent ==
    /\ mode = "local"
    /\ nmut > 0
    /\ apc \in {"start", "loop"}
    /\ \A g \in DOMAIN rpc : rpc[g] = "idle"

\* the configuration file and the working set of the monitor are the ones
\* regenerateConfig derives from the store as it is (main.go:383-415)
DerivedFromStore ==
    \E l \in ListUsers :
       LET list == [i \in 1..Len(l) |-> ToConfigUser(l[i])] IN
       /\ configFile = Generate(list, "www.microsoft.com", circuitBreaker)
       /\ DOMAIN users = DOMAIN UpdateUsers(NoUsers, list)
       /\ \A id \in DOMAIN users :
             users[id] = [UpdateUsers(NoUsers, list)[id] EXCEPT
                            !.session = users[id].session]

\* C37: in local mode, after any mutations of the store, once every
\* regeneration callback they started has ended, the configuration file and
\* the working set of the monitor are the ones derived from the final users
\* and breaker state of the store, however the callbacks interleaved.
C37_RegenerationConverges == LocalQuiescent => DerivedFromStore

\* C38: a mutation of the store that returns an error, as CreateUser,
\* UpdateUser, DeleteUser and SetCircuitBreaker do when the store cannot
\* be saved, leaves the users and the breaker state in memory as they were
\* before the call.
C38_FailedSaveChangesNothing ==
    [][(nmut' = nmut + 1 /\ mret'.err) =>
          UNCHANGED <<storeUsers, circuitBreaker>>]_vars

\* the bytes of user id in the snapshot the cycle has reported
Snapshotted(id) ==
    IF id \in DOMAIN report.stats THEN report.stats[id] ELSE 0

\* C39: however CheckUser interleaves with a flush cycle, the session bytes
\* of a surviving user that ResetSessionTraffic sets to zero are the bytes
\* of the snapshot the cycle took and reported, no more and no less, and
\* ResetSessionTraffic runs only after a report that went out.
C39_NoSessionBytesLost ==
    [][(main.pc = "task" /\ main'.pc = "select") =>
          IF report'.err
            THEN UNCHANGED users
            ELSE \A id \in DOMAIN users : users[id].session = Snapshotted(id)]_vars

\* watcher w handles the exit it waited for as a crash
HandlesCrash(w) ==
    /\ wpc[w] = "wait"
    /\ wpc'[w] # "wait"
    /\ handled' = handled + 1

\* the instances whose exit a watcher has seen and dealt with
ExitsSeen ==
    {wcmd[w] : w \in {v \in Ids : wpc[v] \in {"sleep", "done"}
                                   /\ wcmd[v] # NoCmd}}

\* two watchers wait on, or waited on, the same instance
SharedInstance(v, w) ==
    /\ v # w
    /\ wcmd[v] # NoCmd
    /\ wcmd[v] = wcmd[w]
    /\ wpc[v] \in {"wait", "sleep", "done"}
    /\ wpc[w] \in {"wait", "sleep", "done"}

\* C40: one exit of an instance is handled as a crash at most once, even
\* when two watchers wait on the same instance.  The exit that is handled
\* is the one of the current instance while it is marked running, and the
\* handling marks it stopped; only the spawn of a new instance, which no
\* watcher waits on yet, marks the subprocess running again; no second
\* watcher of the instance sleeps towards a restart of its own; and the
\* crashes handled never outnumber the instances whose exit was seen.
C40_ExitHandledOnce ==
    [][/\ \A w \in Ids : HandlesCrash(w) =>
              /\ running
              /\ cmd = wcmd[w]
              /\ ~running'
              /\ cmd' = cmd
              /\ \A v \in Ids : SharedInstance(v, w) =>
                      /\ wpc[v] # "sleep"
                      /\ wpc'[v] = wpc[v]
                      /\ mu' # v
       /\ (~running /\ running') =>
              /\ cmd' = ncmd + 1
              /\ ncmd' = ncmd + 1
              /\ \A v \in Ids : wcmd[v] # cmd'
       /\ cmd' # cmd => cmd' = NoCmd \/ cmd' = ncmd + 1
       /\ handled' <= Cardinality(ExitsSeen')]_vars

\* two watchers waited on instance 2, it exited, one of them handled the
\* crash and sleeps towards the restart, the other ended without a trace
C40_Witness ==
    /\ wcmd[1] = 2
    /\ wcmd[2] = 2
    /\ proc[2] = "exited"
    /\ handled = 1
    /\ \E v, w \in {1, 2} :
          /\ wpc[v] = "sleep"
          /\ wpc[w] = "done"
    /\ ~running
    /\ cmd = 2

====
